---- MODULE Spec2Model ----
(***************************************************************************)
(* The synchronization engine of the blogroll endpoint: the single-flight  *)
(* scheduler (lib/sync/scheduler.js), the source adapters (lib/sync/opml.js,*)
(* microsub.js, feedland.js), the per-blog item sync (lib/sync/feed.js) and *)
(* the reconciliation layer (lib/storage/blogs.js, items.js, sources.js).   *)
(*                                                                         *)
(* Every `await` of the JavaScript code is a point where another request   *)
(* handler or timer callback may run, so each awaited store operation is   *)
(* one atomic step of the model and a handler is a sequence of such steps. *)
(***************************************************************************)
EXTENDS Integers, Sequences, FiniteSets, Bags, TLC

VARIABLES
  isRunning,    \* scheduler.js: let isRunning
  pc,           \* per caller / request handler: its position in the code
  ret,          \* the most recent return of runFullSync: to whom, and what
  loc,          \* per caller / request handler: its local variables
  sources,      \* collection blogrollSources
  blogs,        \* collection blogrollBlogs
  items,        \* collection blogrollItems
  meta,         \* collection blogrollMeta
  nextBlogId,   \* the next _id the store hands to an inserted blog
  world,        \* what is outside: the subscription list, the foreign feeds, the blog feeds
  ops           \* operator, webhook and foreign-subsystem events so far

vars == <<isRunning, pc, ret, loc, sources, blogs, items, meta, nextBlogId, world, ops>>

store == <<sources, blogs, items, meta, nextBlogId>>

-----------------------------------------------------------------------------
(* Bounds of the model *)

NumUrls == 2
NumItemIds == 2
MaxTick == 1
MaxOps == 1

Urls == 1..NumUrls
ItemIds == 1..NumItemIds

-----------------------------------------------------------------------------
(* Values *)

Null == "null"

\* The three entry points that call runFullSync: the 15 s startup timer, the
\* interval timer and the dashboard's manual trigger.
Callers == {"startup", "interval", "manual"}

\* The request handler that serves operator and webhook requests.
Handlers == {"request"}

Procs == Callers \cup Handlers

SourceIds == {"s1", "s2"}

\* createSource: the type of each configured source.
SourceType(s) == IF s = "s1" THEN "opml_file" ELSE "microsub"

RecognizedTypes == {"opml_url", "opml_file", "json_feed", "microsub", "feedland"}

-----------------------------------------------------------------------------
(* Timestamps.  The store compares values by type first: a query operand   *)
(* that is a Date matches only fields that hold a Date, and a string only  *)
(* matches strings (BSON type bracketing).  A timestamp value therefore    *)
(* carries its representation next to its instant.                         *)

DayMs == 24 * 60 * 60 * 1000

\* runFullSync's default for options.maxItemAge, in days
DefaultMaxItemAge == 7

\* The instants Date.now() may return: MaxTick milliseconds from Epoch0 on.
Epoch0 == DefaultMaxItemAge * DayMs
Clock == Epoch0 .. (Epoch0 + MaxTick)

\* new Date(ms)
NewDate(ms) == [type |-> "date", t |-> ms]

\* Date.prototype.toISOString(): the same instant, held as a string
ToISOString(d) == [type |-> "string", t |-> d.t]

\* A comparison of the instants alone, whatever holds them
InstantLt(field, operand) == field.t < operand.t

\* The store's $lt between a field value and a query operand
MongoLt(field, operand) == field.type = operand.type /\ field.t < operand.t

-----------------------------------------------------------------------------
(* lib/storage/items.js *)

BagOf(e) == SetToBag({e})

BagFilter(B, Keep(_)) == [e \in {x \in DOMAIN B : Keep(x)} |-> B[e]]

\* upsertItem as a plain insertOne
InsertItem(its, data) ==
  [items |-> its (+) BagOf([blogId |-> data.blogId, uid |-> data.uid,
                            published |-> data.published]),
   upserted |-> TRUE]

\* upsertItem: updateOne({blogId, uid}, {$set: mutable fields,
\* $setOnInsert: {blogId, uid}}, {upsert: true})
UpsertItem(its, data) ==
  LET match == {i \in BagToSet(its) : i.blogId = data.blogId /\ i.uid = data.uid}
  IN IF match = {}
       THEN [items |-> its (+) BagOf([blogId |-> data.blogId, uid |-> data.uid,
                                      published |-> data.published]),
             upserted |-> TRUE]
       ELSE LET d == CHOOSE i \in match : TRUE
            IN [items |-> (its (-) BagOf(d)) (+) BagOf([d EXCEPT !.published = data.published]),
                upserted |-> FALSE]

\* deleteItemsForBlog / deleteMany({blogId})
DeleteItemsOf(its, ids) == BagFilter(its, LAMBDA i : i.blogId \notin ids)

\* deleteOldItems: deleteMany({published: {$lt: cutoff}}), cutoff a Date
DeleteOldItems(its, nowMs, maxAgeDays) ==
  LET cutoff == NewDate(nowMs - maxAgeDays * DayMs)
      kept == BagFilter(its, LAMBDA i : ~MongoLt(i.published, cutoff))
  IN [items |-> kept, deletedCount |-> BagCardinality(its) - BagCardinality(kept)]

-----------------------------------------------------------------------------
(* lib/storage/blogs.js *)

\* The document updateOne / findOne picks among several matches: the first
\* in the collection's natural order, which is insertion order.
FirstOf(bs) == CHOOSE b \in bs : \A o \in bs : b.id <= o.id

\* getBlogs(application, {includeHidden: false})
GetBlogs(bs) == {b \in bs : b.status # "deleted" /\ b.hidden # TRUE}

\* A lookup that finds no blog, whatever the collection holds
NoBlogByFeedUrl(bs, url) == {}

\* getBlogByFeedUrl: findOne({feedUrl, status: {$ne: "deleted"}})
GetBlogByFeedUrl(bs, url) == {b \in bs : b.feedUrl = url /\ b.status # "deleted"}

\* createBlog: insertOne of a blog with status active and no source
CreateBlog(bs, id, url) ==
  bs \cup {[id |-> id, feedUrl |-> url, sourceId |-> Null, source |-> Null,
            status |-> "active", hidden |-> FALSE, skipItemFetch |-> FALSE,
            microsubFeedId |-> <<>>, lastError |-> Null, lastFetchAt |-> FALSE]}

\* deleteBlog, second store call: the soft delete
SoftDelete(bs, ids) ==
  {IF b.id \in ids THEN [b EXCEPT !.status = "deleted", !.hidden = TRUE] ELSE b : b \in bs}

\* updateBlogStatus recording every fetch as a success
MarkFetched(bs, id, success, error) ==
  {IF b.id = id
     THEN [b EXCEPT !.status = "active", !.lastError = Null, !.lastFetchAt = TRUE]
     ELSE b : b \in bs}

\* updateBlogStatus: updateOne({_id}, {$set: ...}), whatever the row's status
UpdateBlogStatus(bs, id, success, error) ==
  {IF b.id = id
     THEN IF success THEN [b EXCEPT !.status = "active", !.lastError = Null,
                                          !.lastFetchAt = TRUE]
                     ELSE [b EXCEPT !.status = "error", !.lastError = error]
     ELSE b : b \in bs}

\* upsertBlog without its check for a deleted row
NoDeletedCheck(bs, url) == FALSE

\* A check that passes over the deleted rows of the mirror
HasDeletedByHand(bs, url) ==
  \E b \in bs : b.feedUrl = url /\ b.status = "deleted" /\ b.source # "microsub"

\* upsertBlog, first store call: findOne({feedUrl, status: "deleted"})
HasDeleted(bs, url) == \E b \in bs : b.feedUrl = url /\ b.status = "deleted"

\* upsertBlog: the filter of its updateOne
UpsertFilter(bs, data) ==
  {b \in bs : b.feedUrl = data.feedUrl
              /\ (data.sourceId # Null => b.sourceId = data.sourceId)}

\* upsertBlog with its insert defaults in $set
SetFieldsAndDefaults(b, data) ==
  [b EXCEPT !.sourceId = data.sourceId, !.hidden = FALSE, !.lastError = Null]

\* upsertBlog: $set on the matched row (the fields the candidate provides)
SetFields(b, data) ==
  [b EXCEPT !.sourceId = data.sourceId,
            !.source = IF "source" \in data.has THEN data.source ELSE @,
            !.microsubFeedId = IF "microsubFeedId" \in data.has THEN data.microsubFeedId ELSE @,
            !.skipItemFetch = IF "skipItemFetch" \in data.has THEN data.skipItemFetch ELSE @,
            !.lastFetchAt = IF "lastFetchAt" \in data.has THEN data.lastFetchAt ELSE @,
            !.status = IF "status" \in data.has THEN data.status ELSE @]

\* upsertBlog: $set and $setOnInsert on a new row
InsertDefaults(id, data) ==
  SetFields([id |-> id, feedUrl |-> data.feedUrl, sourceId |-> Null, source |-> Null,
             status |-> "active", hidden |-> FALSE, skipItemFetch |-> FALSE,
             microsubFeedId |-> <<>>, lastError |-> Null, lastFetchAt |-> FALSE], data)

\* upsertBlog, second store call: updateOne(filter, ..., {upsert: true})
UpsertWrite(bs, id, data) ==
  LET match == UpsertFilter(bs, data)
  IN IF match = {}
       THEN [blogs |-> bs \cup {InsertDefaults(id, data)}, upserted |-> TRUE, modified |-> FALSE]
       ELSE LET b == FirstOf(match)
            IN [blogs |-> (bs \ {b}) \cup {SetFields(b, data)},
                upserted |-> FALSE, modified |-> TRUE]

\* updateSourceSyncStatus stamping lastSyncAt whatever the outcome
UpdateSourceSyncStamp(srcs, id, success, error) ==
  [s \in SourceIds |->
     IF s = id /\ srcs[s].present
       THEN [srcs[s] EXCEPT !.lastSyncError = IF success THEN Null ELSE error,
                            !.synced = TRUE]
       ELSE srcs[s]]

\* sources.js updateSourceSyncStatus: updateOne({_id}, {$set: ...}); synced
\* tells that lastSyncAt holds a time
UpdateSourceSyncStatus(srcs, id, success, error) ==
  [s \in SourceIds |->
     IF s = id /\ srcs[s].present
       THEN [srcs[s] EXCEPT !.lastSyncError = IF success THEN Null ELSE error,
                            !.synced = IF success THEN TRUE ELSE @]
       ELSE srcs[s]]

-----------------------------------------------------------------------------
(* lib/sync/feed.js *)

\* generateUid: sha256(feedUrl :: itemId), truncated; injective on the
\* (feedUrl, itemId) pairs of the model
GenerateUid(feedUrl, itemId) == <<feedUrl, itemId>>

\* The date the feed gives its item i
ItemDate(i) == NewDate(i - 1)

\* normalizeItem / parseJsonFeed: uid and published of a feed item
NormalizeItem(feedUrl, i) ==
  [uid |-> GenerateUid(feedUrl, i), published |-> ToISOString(ItemDate(i))]

-----------------------------------------------------------------------------
(* Local variables of runFullSync and of the functions it calls *)

LocInit ==
  [cutoff |-> NewDate(0), deletedItems |-> 0,
   enabledSources |-> {}, srcQ |-> {}, sourcesSuccess |-> 0, sourcesFailed |-> 0,
   source |-> Null, cands |-> {}, data |-> <<>>, currentMicrosubFeedIds |-> {},
   result |-> Null, added |-> 0, updated |-> 0,
   blogs |-> {}, blogQ |-> {}, blogsSuccess |-> 0, blogsFailed |-> 0,
   blogsSkipped |-> 0, newItems |-> 0,
   blog |-> <<>>, feedQ |-> {}, itemsAdded |-> 0, feedLen |-> 0,
   runningAtCall |-> FALSE]

SetPc(p, to) == pc' = [pc EXCEPT ![p] = to]
SetLoc(p, l) == loc' = [loc EXCEPT ![p] = l]
Return(p, what) == ret' = [who |-> p, what |-> what]

MinOf(S) == CHOOSE x \in S : \A y \in S : x <= y

\* getSources sorts by name
FirstSource(S) == IF "s1" \in S THEN "s1" ELSE "s2"

-----------------------------------------------------------------------------
(* What is outside the program.  The subscription list of the list-based   *)
(* source, the mirror subsystem's feed collection and the feeds of the     *)
(* blogs are read, never written, by the program.                          *)

\* A blog's feed either cannot be fetched or parsed, or bears its items.
FeedShapes == {[ok |-> FALSE, items |-> {}], [ok |-> TRUE, items |-> ItemIds]}

Worlds ==
  [list : [ok : BOOLEAN, urls : SUBSET Urls],
   avail : BOOLEAN,
   subs : SUBSET Urls,
   feed : [Urls -> FeedShapes]]

\* A document that cannot be read has no content.
WellFormed(w) ==
  /\ ~w.list.ok => w.list.urls = {}
  /\ ~w.avail => w.subs = {}
  /\ \A u \in Urls : ~w.feed[u].ok => w.feed[u].items = {}

-----------------------------------------------------------------------------
(* lib/sync/scheduler.js: runFullSync *)

\* The startup timer fires once; the interval timer and the dashboard's
\* trigger fire again and again.
AfterReturn(p) == IF p = "startup" THEN "done" ELSE "idle"

\* Where runFullSync is called from: a timer callback or the dashboard's
\* trigger at rest, or the last line of clearAndResync.
EntryPcs == {"idle", "resync"}

\* Where a caller is outside runFullSync
OutsidePcs == {"idle", "done", "resetBlogs", "resync"}

\* runFullSync returning {skipped: true} from inside its try / finally
RunSkippedInTry(p) ==
  /\ p \in Callers /\ pc[p] \in EntryPcs
  /\ isRunning
  /\ isRunning' = FALSE
  /\ Return(p, "skipped")
  /\ SetPc(p, AfterReturn(p))
  /\ UNCHANGED <<loc, store, world, ops>>

\* if (isRunning) return { skipped: true }
RunSkipped(p) ==
  /\ p \in Callers /\ pc[p] \in EntryPcs
  /\ isRunning
  /\ Return(p, "skipped")
  /\ SetPc(p, AfterReturn(p))
  /\ UNCHANGED <<isRunning, loc, store, world, ops>>

\* runFullSync without its in-progress check
RunStartUnguarded(p) ==
  /\ p \in Callers /\ pc[p] \in EntryPcs
  /\ isRunning' = TRUE
  /\ SetPc(p, "sweep")
  /\ UNCHANGED <<ret, loc, store, world, ops>>

\* isRunning = true
RunStart(p) ==
  /\ p \in Callers /\ pc[p] \in EntryPcs
  /\ ~isRunning
  /\ isRunning' = TRUE
  /\ SetPc(p, "sweep")
  /\ UNCHANGED <<ret, loc, store, world, ops>>

\* const deletedItems = await deleteOldItems(application, maxItemAge)
Sweep(p) ==
  /\ pc[p] = "sweep"
  /\ \E now \in Clock :
       LET r == DeleteOldItems(items, now, DefaultMaxItemAge)
       IN /\ items' = r.items
          /\ SetLoc(p, [loc[p] EXCEPT !.deletedItems = r.deletedCount,
                                      !.cutoff = NewDate(now - DefaultMaxItemAge * DayMs)])
  /\ SetPc(p, "sources")
  /\ UNCHANGED <<isRunning, ret, sources, blogs, meta, nextBlogId, world, ops>>

\* The filter without its test of the enabled flag
RecognizedSources(srcs) ==
  {s \in SourceIds : srcs[s].present /\ SourceType(s) \in RecognizedTypes}

\* sources.filter((s) => s.enabled && [...].includes(s.type))
EnabledSources(srcs) ==
  {s \in SourceIds : srcs[s].present /\ srcs[s].enabled /\ SourceType(s) \in RecognizedTypes}

\* const sources = await getSources(application); enabledSources = ...
GetSources(p) ==
  /\ pc[p] = "sources"
  /\ SetLoc(p, [loc[p] EXCEPT !.enabledSources = EnabledSources(sources),
                              !.srcQ = EnabledSources(sources)])
  /\ SetPc(p, "srcLoop")
  /\ UNCHANGED <<isRunning, ret, store, world, ops>>

-----------------------------------------------------------------------------
(* lib/sync/opml.js, lib/sync/microsub.js: the source adapters *)

\* syncOpmlSource: upsertBlog(application, {...blog, sourceId: source._id})
OpmlCandidate(url, s) ==
  [feedUrl |-> url, sourceId |-> s, has |-> {}, source |-> Null,
   microsubFeedId |-> <<>>, skipItemFetch |-> FALSE, lastFetchAt |-> FALSE,
   status |-> Null]

\* syncMicrosubSource: blogData, a reference to the foreign feed (of the
\* fields it provides, those a blog row of the model carries); the foreign
\* feed is healthy and the foreign subsystem has not stamped a fetch on it
MicrosubCandidate(url, s) ==
  [feedUrl |-> url, sourceId |-> s,
   has |-> {"source", "microsubFeedId", "skipItemFetch", "lastFetchAt", "status"},
   source |-> "microsub", microsubFeedId |-> <<url>>, skipItemFetch |-> TRUE,
   lastFetchAt |-> FALSE, status |-> "active"]

Candidate(url, s) ==
  IF SourceType(s) = "microsub" THEN MicrosubCandidate(url, s) ELSE OpmlCandidate(url, s)

\* What runFullSync does with an adapter's result (or with what it throws)
SourceTally(l, success) ==
  [l EXCEPT !.sourcesSuccess = IF success THEN @ + 1 ELSE @,
            !.sourcesFailed = IF success THEN @ ELSE @ + 1,
            !.source = Null, !.cands = {}, !.data = <<>>, !.result = Null,
            !.currentMicrosubFeedIds = {}, !.added = 0, !.updated = 0]

\* A reading that never fails, whatever the state of the document or of
\* the foreign collections.
AlwaysReadable(w, s) == TRUE

\* The adapter reads its document: parseOpml(source.opmlContent), or the
\* foreign channels and the feeds of each.  No channel, or channels without
\* feeds, is the empty feed set.  A document that cannot be read, or a
\* missing foreign collection, throws into the adapter's catch block.
Readable(w, s) == IF SourceType(s) = "microsub" THEN w.avail ELSE w.list.ok

Listed(w, s) == IF SourceType(s) = "microsub" THEN w.subs ELSE w.list.urls

AdapterFetch(p) ==
  /\ pc[p] = "srcLoop" /\ loc[p].srcQ # {}
  /\ LET s == FirstSource(loc[p].srcQ)
     IN IF Readable(world, s)
          THEN /\ SetLoc(p, [loc[p] EXCEPT !.srcQ = @ \ {s}, !.source = s,
                                           !.cands = Listed(world, s)])
               /\ SetPc(p, "upsertLoop")
          ELSE /\ SetLoc(p, [loc[p] EXCEPT !.srcQ = @ \ {s}, !.source = s])
               /\ SetPc(p, "adapterCatch")
  /\ UNCHANGED <<isRunning, ret, store, world, ops>>

\* upsertBlog, up to its first await: findOne({feedUrl, status: "deleted"});
\* if (deleted) return { skippedDeleted: true }
UpsertBlogCheck(p) ==
  /\ pc[p] = "upsertLoop" /\ loc[p].cands # {}
  /\ LET url == MinOf(loc[p].cands)
         s == loc[p].source
         ids == IF SourceType(s) = "microsub"
                  THEN loc[p].currentMicrosubFeedIds \cup {<<url>>}
                  ELSE loc[p].currentMicrosubFeedIds
     IN IF HasDeleted(blogs, url)
          THEN /\ SetLoc(p, [loc[p] EXCEPT !.cands = @ \ {url},
                                           !.currentMicrosubFeedIds = ids,
                                           !.result = "skippedDeleted"])
               /\ UNCHANGED pc
          ELSE /\ SetLoc(p, [loc[p] EXCEPT !.cands = @ \ {url}, !.data = Candidate(url, s),
                                           !.currentMicrosubFeedIds = ids])
               /\ SetPc(p, "upsertWrite")
  /\ UNCHANGED <<isRunning, ret, store, world, ops>>

\* The adapter fetching the feed of the blog it upserts, as the blogs
\* controller does after createBlog
UpsertBlogWriteAndFetch(p) ==
  /\ pc[p] = "upsertWrite"
  /\ LET r == UpsertWrite(blogs, nextBlogId, loc[p].data)
         url == loc[p].data.feedUrl
         id == (CHOOSE b \in r.blogs : b.feedUrl = url /\ b.sourceId = loc[p].data.sourceId).id
         f == world.feed[url]
     IN /\ blogs' = r.blogs
        /\ nextBlogId' = IF r.upserted THEN nextBlogId + 1 ELSE nextBlogId
        /\ items' = IF f.ok /\ f.items # {}
                      THEN LET i == MinOf(f.items)
                               n == NormalizeItem(url, i)
                           IN UpsertItem(items, [blogId |-> id, uid |-> n.uid,
                                                 published |-> n.published]).items
                      ELSE items
        /\ SetLoc(p, [loc[p] EXCEPT !.data = <<>>,
                                    !.result = IF r.upserted THEN "upserted" ELSE "modified",
                                    !.added = IF r.upserted THEN @ + 1 ELSE @,
                                    !.updated = IF ~r.upserted /\ r.modified THEN @ + 1 ELSE @])
  /\ SetPc(p, "upsertLoop")
  /\ UNCHANGED <<isRunning, ret, sources, meta, world, ops>>

\* upsertBlog, its updateOne; the adapter's added / updated tally
UpsertBlogWrite(p) ==
  /\ pc[p] = "upsertWrite"
  /\ LET r == UpsertWrite(blogs, nextBlogId, loc[p].data)
     IN /\ blogs' = r.blogs
        /\ nextBlogId' = IF r.upserted THEN nextBlogId + 1 ELSE nextBlogId
        /\ SetLoc(p, [loc[p] EXCEPT !.data = <<>>,
                                    !.result = IF r.upserted THEN "upserted" ELSE "modified",
                                    !.added = IF r.upserted THEN @ + 1 ELSE @,
                                    !.updated = IF ~r.upserted /\ r.modified THEN @ + 1 ELSE @])
  /\ SetPc(p, "upsertLoop")
  /\ UNCHANGED <<isRunning, ret, sources, items, meta, world, ops>>

\* syncMicrosubSource, orphan detection: the updateMany with
\* microsubFeedId: {$nin: currentMicrosubFeedIds}
OrphanUpdate(bs, s, currentIds) ==
  {IF b.source = "microsub" /\ b.sourceId = s /\ b.microsubFeedId \notin currentIds
      /\ b.status # "deleted"
     THEN [b EXCEPT !.status = "deleted", !.hidden = TRUE]
     ELSE b : b \in bs}

\* if (currentMicrosubFeedIds.length > 0)
OrphanGuard(currentIds) == currentIds # {}

OrphanDetection(p) ==
  /\ pc[p] = "upsertLoop" /\ loc[p].cands = {}
  /\ SourceType(loc[p].source) = "microsub"
  /\ OrphanGuard(loc[p].currentMicrosubFeedIds)
  /\ blogs' = OrphanUpdate(blogs, loc[p].source, loc[p].currentMicrosubFeedIds)
  /\ SetPc(p, "adapterStatus")
  /\ UNCHANGED <<isRunning, ret, loc, sources, items, meta, nextBlogId, world, ops>>

\* await updateSourceSyncStatus(application, source._id, { success: true });
\* return { success: true, ... }
AdapterSuccess(p) ==
  /\ \/ pc[p] = "adapterStatus"
     \/ /\ pc[p] = "upsertLoop" /\ loc[p].cands = {}
        /\ SourceType(loc[p].source) = "microsub"
             => ~OrphanGuard(loc[p].currentMicrosubFeedIds)
  /\ sources' = UpdateSourceSyncStatus(sources, loc[p].source, TRUE, Null)
  /\ SetLoc(p, SourceTally(loc[p], TRUE))
  /\ SetPc(p, "srcLoop")
  /\ UNCHANGED <<isRunning, ret, blogs, items, meta, nextBlogId, world, ops>>

\* A failing adapter that ends the loop over the sources
AdapterFailureAborts(p) ==
  /\ pc[p] = "adapterCatch"
  /\ sources' = UpdateSourceSyncStatus(sources, loc[p].source, FALSE, "error")
  /\ SetLoc(p, [SourceTally(loc[p], FALSE) EXCEPT !.srcQ = {}])
  /\ SetPc(p, "srcLoop")
  /\ UNCHANGED <<isRunning, ret, blogs, items, meta, nextBlogId, world, ops>>

\* catch (error): await updateSourceSyncStatus(..., { success: false, error });
\* return { success: false, error }
AdapterFailure(p) ==
  /\ pc[p] = "adapterCatch"
  /\ sources' = UpdateSourceSyncStatus(sources, loc[p].source, FALSE, "error")
  /\ SetLoc(p, SourceTally(loc[p], FALSE))
  /\ SetPc(p, "srcLoop")
  /\ UNCHANGED <<isRunning, ret, blogs, items, meta, nextBlogId, world, ops>>

-----------------------------------------------------------------------------
(* lib/sync/scheduler.js, the blog stage; lib/sync/feed.js: syncBlogItems *)

\* The blog loop without its test: every listed blog is handed to syncBlogItems
NeverSkips(b) == FALSE

\* What syncBlogItems reads of the blog document it is handed
\* if (blog.source === "microsub" || blog.skipItemFetch) { blogsSkipped++; continue; }
SkipsItemFetch(b) == b.source = "microsub" \/ b.skipItemFetch

\* What runFullSync and syncBlogItems read of a blog document they hold
Snapshot(b) ==
  [id |-> b.id, feedUrl |-> b.feedUrl, lastFetchAt |-> b.lastFetchAt,
   skip |-> SkipsItemFetch(b)]

\* The blogs enumerated as soon as one source is done, others still waiting
GetBlogsEarly(p) ==
  /\ p \in Callers
  /\ pc[p] = "srcLoop"
  /\ LET listed == {Snapshot(b) : b \in GetBlogs(blogs)}
         fetchable == {b \in listed : ~b.skip}
     IN SetLoc(p, [loc[p] EXCEPT !.blogs = listed, !.blogQ = fetchable,
                                 !.blogsSkipped = Cardinality(listed \ fetchable)])
  /\ SetPc(p, "blogLoop")
  /\ UNCHANGED <<isRunning, ret, store, world, ops>>

\* const blogs = await getBlogs(application, {includeHidden: false, ...})
GetBlogsStep(p) ==
  /\ p \in Callers
  /\ pc[p] = "srcLoop" /\ loc[p].srcQ = {}
  /\ LET listed == {Snapshot(b) : b \in GetBlogs(blogs)}
         fetchable == {b \in listed : ~b.skip}
     IN SetLoc(p, [loc[p] EXCEPT !.blogs = listed, !.blogQ = fetchable,
                                 !.blogsSkipped = Cardinality(listed \ fetchable)])
  /\ SetPc(p, "blogLoop")
  /\ UNCHANGED <<isRunning, ret, store, world, ops>>

FirstBlog(Q) == CHOOSE b \in Q : \A o \in Q : b.id <= o.id

\* syncBlogItems letting a failed fetch end the caller's loop over the blogs
FetchFeedAborting(p) ==
  /\ pc[p] = "blogLoop" /\ loc[p].blogQ # {}
  /\ LET b == FirstBlog(loc[p].blogQ)
         f == world.feed[b.feedUrl]
     IN IF f.ok
          THEN /\ SetLoc(p, [loc[p] EXCEPT !.blogQ = @ \ {b}, !.blog = b,
                                           !.feedQ = f.items, !.itemsAdded = 0,
                                           !.feedLen = Cardinality(f.items)])
               /\ SetPc(p, "itemLoop")
          ELSE /\ SetLoc(p, [loc[p] EXCEPT !.blogQ = {}, !.blog = b])
               /\ SetPc(p, "syncCatch")
  /\ UNCHANGED <<isRunning, ret, store, world, ops>>

\* syncBlogItems: const feed = await fetchAndParseFeed(blog.feedUrl, ...)
FetchFeed(p) ==
  /\ pc[p] = "blogLoop" /\ loc[p].blogQ # {}
  /\ LET b == FirstBlog(loc[p].blogQ)
         f == world.feed[b.feedUrl]
     IN IF f.ok
          THEN /\ SetLoc(p, [loc[p] EXCEPT !.blogQ = @ \ {b}, !.blog = b,
                                           !.feedQ = f.items, !.itemsAdded = 0,
                                           !.feedLen = Cardinality(f.items)])
               /\ SetPc(p, "itemLoop")
          ELSE /\ SetLoc(p, [loc[p] EXCEPT !.blogQ = @ \ {b}, !.blog = b])
               /\ SetPc(p, "syncCatch")
  /\ UNCHANGED <<isRunning, ret, store, world, ops>>

\* const result = await upsertItem(application, {...item, blogId: blog._id});
\* if (result.upserted) added++
UpsertItemStep(p) ==
  /\ pc[p] = "itemLoop" /\ loc[p].feedQ # {}
  /\ LET i == MinOf(loc[p].feedQ)
         n == NormalizeItem(loc[p].blog.feedUrl, i)
         r == UpsertItem(items, [blogId |-> loc[p].blog.id, uid |-> n.uid,
                                 published |-> n.published])
     IN /\ items' = r.items
        /\ SetLoc(p, [loc[p] EXCEPT !.feedQ = @ \ {i},
                                    !.itemsAdded = IF r.upserted THEN @ + 1 ELSE @])
  /\ UNCHANGED <<isRunning, pc, ret, sources, blogs, meta, nextBlogId, world, ops>>

\* A tally that leaves out the failures
TallySuccessOnly(p, success) ==
  IF p \in Callers
    THEN [loc[p] EXCEPT !.blogsSuccess = IF success THEN @ + 1 ELSE @,
                        !.newItems = IF success THEN @ + loc[p].itemsAdded ELSE @,
                        !.blog = <<>>, !.feedQ = {}, !.itemsAdded = 0, !.feedLen = 0]
    ELSE LocInit

\* What the caller of syncBlogItems does with its result: runFullSync
\* tallies it; the request handlers respond.
SyncTally(p, success) ==
  IF p \in Callers
    THEN [loc[p] EXCEPT !.blogsSuccess = IF success THEN @ + 1 ELSE @,
                        !.blogsFailed = IF success THEN @ ELSE @ + 1,
                        !.newItems = IF success THEN @ + loc[p].itemsAdded ELSE @,
                        !.blog = <<>>, !.feedQ = {}, !.itemsAdded = 0, !.feedLen = 0]
    ELSE LocInit

SyncReturn(p, success) ==
  /\ SetLoc(p, SyncTally(p, success))
  /\ IF p \in Callers
       THEN SetPc(p, "blogLoop")
       ELSE SetPc(p, "idle")
  /\ UNCHANGED ret

\* await updateBlogStatus(application, blog._id, {success: true, itemCount});
\* return { success: true, added, total }
SyncSuccess(p) ==
  /\ pc[p] = "itemLoop" /\ loc[p].feedQ = {}
  /\ blogs' = UpdateBlogStatus(blogs, loc[p].blog.id, TRUE, Null)
  /\ SyncReturn(p, TRUE)
  /\ UNCHANGED <<isRunning, sources, items, meta, nextBlogId, world, ops>>

\* catch (error): await updateBlogStatus(application, blog._id,
\* {success: false, error}); return { success: false, error }
SyncFailure(p) ==
  /\ pc[p] = "syncCatch"
  /\ blogs' = UpdateBlogStatus(blogs, loc[p].blog.id, FALSE, "error")
  /\ SyncReturn(p, FALSE)
  /\ UNCHANGED <<isRunning, sources, items, meta, nextBlogId, world, ops>>

\* The syncStats document of the run
RunStats(l) ==
  [sources |-> [total |-> Cardinality(l.enabledSources), success |-> l.sourcesSuccess,
                failed |-> l.sourcesFailed],
   blogs |-> [total |-> Cardinality(l.blogs), success |-> l.blogsSuccess,
              failed |-> l.blogsFailed],
   items |-> [added |-> l.newItems, deleted |-> l.deletedItems]]

\* The statistics written with insertOne, one record per run
WriteStatsAppending(p) ==
  /\ p \in Callers
  /\ pc[p] = "blogLoop" /\ loc[p].blogQ = {}
  /\ meta' = meta \cup {RunStats(loc[p])}
  /\ SetPc(p, "return")
  /\ UNCHANGED <<isRunning, ret, loc, sources, blogs, items, nextBlogId, world, ops>>

\* await db.collection("blogrollMeta").updateOne({key: "syncStats"}, {$set}, {upsert: true})
WriteStats(p) ==
  /\ p \in Callers
  /\ pc[p] = "blogLoop" /\ loc[p].blogQ = {}
  /\ meta' = {RunStats(loc[p])}
  /\ SetPc(p, "return")
  /\ UNCHANGED <<isRunning, ret, loc, sources, blogs, items, nextBlogId, world, ops>>

\* return { success: true, ... }; finally { isRunning = false }
RunReturn(p) ==
  /\ pc[p] = "return"
  /\ isRunning' = FALSE
  /\ Return(p, "success")
  /\ SetPc(p, AfterReturn(p))
  /\ SetLoc(p, LocInit)
  /\ UNCHANGED <<store, world, ops>>

\* One of runFullSync's own store calls is next: deleteOldItems, getSources,
\* getBlogs, or the updateOne of the statistics.
StoreCallNext(p) ==
  \/ pc[p] \in {"sweep", "sources"}
  \/ pc[p] = "srcLoop" /\ loc[p].srcQ = {}
  \/ pc[p] = "blogLoop" /\ loc[p].blogQ = {}

\* A run whose catch block lets the exception out to the caller
RunRethrows(p) ==
  /\ p \in Callers /\ StoreCallNext(p)
  /\ isRunning' = FALSE
  /\ Return(p, "thrown")
  /\ SetPc(p, AfterReturn(p))
  /\ SetLoc(p, LocInit)
  /\ UNCHANGED <<store, world, ops>>

\* A catch block without the finally that clears the flag
RunCatchKeepsFlag(p) ==
  /\ p \in Callers /\ StoreCallNext(p)
  /\ Return(p, "failure")
  /\ SetPc(p, AfterReturn(p))
  /\ SetLoc(p, LocInit)
  /\ UNCHANGED <<isRunning, store, world, ops>>

\* The store call rejects: catch (error) { return { success: false, error } }
\* finally { isRunning = false }
RunCatch(p) ==
  /\ p \in Callers /\ StoreCallNext(p)
  /\ isRunning' = FALSE
  /\ Return(p, "failure")
  /\ SetPc(p, AfterReturn(p))
  /\ SetLoc(p, LocInit)
  /\ UNCHANGED <<store, world, ops>>

-----------------------------------------------------------------------------
(* lib/sync/scheduler.js: clearAndResync *)

\* updateMany({status: {$ne: "deleted"}}, {$set: {itemCount: 0, lastFetchAt:
\* null, status: "active", lastError: null}})
ResetBlogRows(bs) ==
  {IF b.status # "deleted"
     THEN [b EXCEPT !.status = "active", !.lastFetchAt = FALSE, !.lastError = Null]
     ELSE b : b \in bs}

\* await db.collection("blogrollItems").deleteMany({}).  runningAtCall is
\* history: whether a run was active when clearAndResync was called.
ClearItems(p) ==
  /\ p = "manual" /\ pc[p] = "idle" /\ ops < MaxOps
  /\ items' = EmptyBag
  /\ SetLoc(p, [loc[p] EXCEPT !.runningAtCall = isRunning])
  /\ SetPc(p, "resetBlogs")
  /\ ops' = ops + 1
  /\ UNCHANGED <<isRunning, ret, sources, blogs, meta, nextBlogId, world>>

\* await db.collection("blogrollBlogs").updateMany(...); what follows,
\* return runFullSync(application, options), is RunStart or RunSkipped
ResetBlogs(p) ==
  /\ pc[p] = "resetBlogs"
  /\ blogs' = ResetBlogRows(blogs)
  /\ SetPc(p, "resync")
  /\ UNCHANGED <<isRunning, ret, loc, sources, items, meta, nextBlogId, world, ops>>

-----------------------------------------------------------------------------
(* lib/controllers: what the operator, the webhook and the foreign         *)
(* subsystem do while the scheduler runs                                   *)

\* blogs controller, remove: getBlog(id), then deleteBlog, whose first store
\* call is deleteItemsForBlog.  A blog row is never removed, so the getBlog
\* that precedes finds the row whenever this step does.
DeleteBlogItems(p) ==
  /\ p \in Handlers /\ pc[p] = "idle" /\ ops < MaxOps
  /\ \E b \in blogs :
       /\ items' = DeleteItemsOf(items, {b.id})
       /\ SetLoc(p, [loc[p] EXCEPT !.blog = Snapshot(b)])
  /\ SetPc(p, "softDelete")
  /\ ops' = ops + 1
  /\ UNCHANGED <<isRunning, ret, sources, blogs, meta, nextBlogId, world>>

\* deleteBlog, second store call: updateOne({_id}, {$set: {status: "deleted", hidden: true}})
DeleteBlogMark(p) ==
  /\ pc[p] = "softDelete"
  /\ blogs' = SoftDelete(blogs, {loc[p].blog.id})
  /\ SetLoc(p, LocInit)
  /\ SetPc(p, "idle")
  /\ UNCHANGED <<isRunning, ret, sources, items, meta, nextBlogId, world, ops>>

\* blogs controller, create: const existing = await getBlogByFeedUrl(...);
\* if (existing) -> "already exists"
CreateBlogCheck(p) ==
  /\ p \in Handlers /\ pc[p] = "idle" /\ ops < MaxOps
  /\ \E url \in Urls :
       IF GetBlogByFeedUrl(blogs, url) # {}
         THEN UNCHANGED <<pc, loc>>
         ELSE /\ SetLoc(p, [loc[p] EXCEPT !.data = [feedUrl |-> url]])
              /\ SetPc(p, "createInsert")
  /\ ops' = ops + 1
  /\ UNCHANGED <<isRunning, ret, store, world>>

\* blogs controller, create: const blog = await createBlog(...); then
\* syncBlogItems(application, blog, ...)
CreateBlogInsert(p) ==
  /\ pc[p] = "createInsert"
  /\ blogs' = CreateBlog(blogs, nextBlogId, loc[p].data.feedUrl)
  /\ nextBlogId' = nextBlogId + 1
  /\ SetLoc(p, [LocInit EXCEPT
                  !.blogQ = {[id |-> nextBlogId, feedUrl |-> loc[p].data.feedUrl,
                              lastFetchAt |-> FALSE, skip |-> FALSE]}])
  /\ SetPc(p, "blogLoop")
  /\ UNCHANGED <<isRunning, ret, sources, items, meta, world, ops>>

\* handleMicrosubWebhook, subscribe: blogData of a blog the webhook adds
WebhookCandidate(url) ==
  [feedUrl |-> url, sourceId |-> Null, has |-> {"source", "status"},
   source |-> "microsub-webhook", microsubFeedId |-> <<>>, skipItemFetch |-> FALSE,
   lastFetchAt |-> FALSE, status |-> "pending"]

\* api controller, microsubWebhook: 503 unless the foreign collections are
\* there; handleMicrosubWebhook, subscribe: const existing = await
\* getBlogByFeedUrl(application, url); if (existing) return {action: "skipped"}.
\* The handler keeps the event's url and, once it has one, the action of its
\* response.
WebhookSubscribe(p) ==
  /\ p \in Handlers /\ pc[p] = "idle" /\ ops < MaxOps
  /\ world.avail
  /\ \E url \in Urls :
       IF GetBlogByFeedUrl(blogs, url) # {}
         THEN /\ SetLoc(p, [loc[p] EXCEPT !.data = WebhookCandidate(url),
                                          !.result = "skipped"])
              /\ UNCHANGED pc
         ELSE /\ SetLoc(p, [loc[p] EXCEPT !.data = WebhookCandidate(url)])
              /\ SetPc(p, "hookCheck")
  /\ ops' = ops + 1
  /\ UNCHANGED <<isRunning, ret, store, world>>

\* upsertBlog called by the webhook, up to its first await
WebhookUpsertCheck(p) ==
  /\ pc[p] = "hookCheck"
  /\ IF HasDeleted(blogs, loc[p].data.feedUrl)
       THEN SetLoc(p, [loc[p] EXCEPT !.result = "added"]) /\ SetPc(p, "idle")
       ELSE SetPc(p, "hookWrite") /\ UNCHANGED loc
  /\ UNCHANGED <<isRunning, ret, store, world, ops>>

\* upsertBlog called by the webhook, its updateOne
WebhookUpsertWrite(p) ==
  /\ pc[p] = "hookWrite"
  /\ LET r == UpsertWrite(blogs, nextBlogId, loc[p].data)
     IN /\ blogs' = r.blogs
        /\ nextBlogId' = IF r.upserted THEN nextBlogId + 1 ELSE nextBlogId
  /\ SetLoc(p, [loc[p] EXCEPT !.result = "added"])
  /\ SetPc(p, "idle")
  /\ UNCHANGED <<isRunning, ret, sources, items, meta, world, ops>>

\* The foreign subsystem drops a feed from the channels the mirror source reads
Unsubscribe ==
  /\ ops < MaxOps
  /\ \E u \in world.subs : world' = [world EXCEPT !.subs = @ \ {u}]
  /\ ops' = ops + 1
  /\ UNCHANGED <<isRunning, pc, ret, loc, store>>

-----------------------------------------------------------------------------
(* The program after construction: plugin init has created the collections *)
(* and startSync has armed the two timers; the operator has configured the *)
(* two sources (createSource) and nothing has been synced yet.             *)

SourceInit == [present |-> TRUE, enabled |-> TRUE, lastSyncError |-> Null, synced |-> FALSE]

Init ==
  /\ isRunning = FALSE
  /\ pc = [p \in Procs |-> "idle"]
  /\ ret = [who |-> Null, what |-> Null]
  /\ loc = [p \in Procs |-> LocInit]
  /\ sources = [s \in SourceIds |-> SourceInit]
  /\ blogs = {}
  /\ items = EmptyBag
  /\ meta = {}
  /\ nextBlogId = 1
  /\ world \in {w \in Worlds : WellFormed(w)}
  /\ ops = 0

\* The scheduler alone: the three entry points race for the run, and nobody
\* else writes to the store.
SchedNext ==
  \E p \in Callers :
    \/ RunSkipped(p)
    \/ RunStart(p)
    \/ Sweep(p)
    \/ GetSources(p)
    \/ AdapterFetch(p)
    \/ UpsertBlogCheck(p)
    \/ UpsertBlogWrite(p)
    \/ OrphanDetection(p)
    \/ AdapterSuccess(p)
    \/ AdapterFailure(p)
    \/ GetBlogsStep(p)
    \/ FetchFeed(p)
    \/ UpsertItemStep(p)
    \/ SyncSuccess(p)
    \/ SyncFailure(p)
    \/ WriteStats(p)
    \/ RunReturn(p)

SpecSched == Init /\ [][SchedNext]_vars

\* The scheduler on a store whose calls may fail: the interval timer and the
\* manual trigger race for the run, and any of runFullSync's own store calls
\* may reject.
FaultNext ==
  \E p \in {"interval", "manual"} :
    \/ RunSkipped(p)
    \/ RunStart(p)
    \/ Sweep(p)
    \/ GetSources(p)
    \/ AdapterFetch(p)
    \/ UpsertBlogCheck(p)
    \/ UpsertBlogWrite(p)
    \/ OrphanDetection(p)
    \/ AdapterSuccess(p)
    \/ AdapterFailure(p)
    \/ GetBlogsStep(p)
    \/ FetchFeed(p)
    \/ UpsertItemStep(p)
    \/ SyncSuccess(p)
    \/ SyncFailure(p)
    \/ WriteStats(p)
    \/ RunReturn(p)
    \/ RunCatch(p)

SpecFault == Init /\ [][FaultNext]_vars

\* The dashboard's clear-and-resync next to the interval timer's runs.
ResyncNext ==
  \E p \in {"interval", "manual"} :
    \/ ClearItems(p)
    \/ ResetBlogs(p)
    \/ RunSkipped(p)
    \/ RunStart(p)
    \/ Sweep(p)
    \/ GetSources(p)
    \/ AdapterFetch(p)
    \/ UpsertBlogCheck(p)
    \/ UpsertBlogWrite(p)
    \/ OrphanDetection(p)
    \/ AdapterSuccess(p)
    \/ AdapterFailure(p)
    \/ GetBlogsStep(p)
    \/ FetchFeed(p)
    \/ UpsertItemStep(p)
    \/ SyncSuccess(p)
    \/ SyncFailure(p)
    \/ WriteStats(p)
    \/ RunReturn(p)

SpecResync == Init /\ [][ResyncNext]_vars

\* The interval timer's runs, with the operator, the webhook and the foreign
\* subsystem acting between any two of their steps.  Runs never overlap, so
\* what the store goes through does not depend on which entry point runs.
Next ==
  \/ \E p \in {"interval"} \cup Handlers :
       \/ RunStart(p)
       \/ Sweep(p)
       \/ GetSources(p)
       \/ AdapterFetch(p)
       \/ UpsertBlogCheck(p)
       \/ UpsertBlogWrite(p)
       \/ OrphanDetection(p)
       \/ AdapterSuccess(p)
       \/ AdapterFailure(p)
       \/ GetBlogsStep(p)
       \/ FetchFeed(p)
       \/ UpsertItemStep(p)
       \/ SyncSuccess(p)
       \/ SyncFailure(p)
       \/ WriteStats(p)
       \/ RunReturn(p)
       \/ DeleteBlogItems(p)
       \/ DeleteBlogMark(p)
       \/ CreateBlogCheck(p)
       \/ CreateBlogInsert(p)
       \/ WebhookSubscribe(p)
       \/ WebhookUpsertCheck(p)
       \/ WebhookUpsertWrite(p)
  \/ Unsubscribe

Spec == Init /\ [][Next]_vars

-----------------------------------------------------------------------------
(* lib/sync/opml.js: parseOpml, generateOpml, escapeXml.  A string is the   *)
(* sequence of its characters.  A document is the sequence of its top-level *)
(* <outline> elements; an element carries the attribute values as they are *)
(* written in the markup (the empty string for an attribute it lacks) and   *)
(* the sequence of its child elements.                                      *)

MaxNodes == 4
MaxDepth == 3
MaxBlogs == 2

Uncategorized == <<"U", "n", "c", "a", "t", "e", "g", "o", "r", "i", "z", "e", "d">>
Unknown == <<"U", "n", "k", "n", "o", "w", "n">>

\* a || b on strings
Or(a, b) == IF a # <<>> THEN a ELSE b

RECURSIVE Flatten(_)
Flatten(ss) == IF ss = <<>> THEN <<>> ELSE Head(ss) \o Flatten(Tail(ss))

\* escapeXml, what its five replace calls (the ampersand first) make of one
\* character
EscapeChar(c) ==
  CASE c = "&" -> <<"&", "a", "m", "p", ";">>
    [] c = "<" -> <<"&", "l", "t", ";">>
    [] c = ">" -> <<"&", "g", "t", ";">>
    [] c = "\"" -> <<"&", "q", "u", "o", "t", ";">>
    [] c = "'" -> <<"&", "a", "p", "o", "s", ";">>
    [] OTHER -> <<c>>

RECURSIVE EscapeXml(_)
EscapeXml(str) ==
  IF str = <<>> THEN <<>> ELSE EscapeChar(Head(str)) \o EscapeXml(Tail(str))

\* The predefined entities the XML parser resolves in an attribute value
Entities ==
  {<<<<"a", "m", "p">>, "&">>, <<<<"l", "t">>, "<">>, <<<<"g", "t">>, ">">>,
   <<<<"q", "u", "o", "t">>, "\"">>, <<<<"a", "p", "o", "s">>, "'">>}

RECURSIVE DecodeEntities(_)
DecodeEntities(str) ==
  IF str = <<>> THEN <<>>
  ELSE LET ends == {k \in 2..Len(str) : str[k] = ";"}
       IN IF Head(str) = "&" /\ ends # {}
            THEN LET k == CHOOSE e \in ends : \A o \in ends : e <= o
                     hit == {e \in Entities : e[1] = SubSeq(str, 2, k - 1)}
                 IN IF hit # {}
                      THEN <<(CHOOSE e \in hit : TRUE)[2]>>
                             \o DecodeEntities(SubSeq(str, k + 1, Len(str)))
                      ELSE <<Head(str)>> \o DecodeEntities(Tail(str))
            ELSE <<Head(str)>> \o DecodeEntities(Tail(str))

\* parseStringPromise(opmlContent, {explicitArray: false}): an element
\* becomes an object with its attributes under $, and its children under
\* "outline": nothing when there are none, the one child itself when there
\* is one, an array when there are several.
RECURSIVE ParseElement(_)
ParseElement(e) ==
  [attr |-> [text |-> DecodeEntities(e.text), title |-> DecodeEntities(e.title),
             xmlUrl |-> DecodeEntities(e.xmlUrl)],
   outline |-> [kind |-> IF Len(e.outline) = 0 THEN "undefined"
                         ELSE IF Len(e.outline) = 1 THEN "object" ELSE "array",
                nodes |-> [i \in 1..Len(e.outline) |-> ParseElement(e.outline[i])]]]

ParseString(doc) ==
  [kind |-> IF Len(doc) = 0 THEN "undefined"
            ELSE IF Len(doc) = 1 THEN "object" ELSE "array",
   nodes |-> [i \in 1..Len(doc) |-> ParseElement(doc[i])]]

\* Array.isArray(x) ? x : [x]
AsArray(x) == IF x.kind = "array" THEN x.nodes ELSE <<x.nodes[1]>>

\* blogs.push({title: o.$.text || o.$.title || "Unknown", feedUrl: o.$.xmlUrl, category})
ParsedBlog(o, category) ==
  [title |-> Or(o.attr.text, Or(o.attr.title, Unknown)),
   feedUrl |-> o.attr.xmlUrl, category |-> category]

\* parseOpml, the body of its loop over the top-level outlines
OutlineBlogs(o) ==
  IF o.outline.kind # "undefined"
    THEN LET children == AsArray(o.outline)
             category == Or(o.attr.text, Or(o.attr.title, <<>>))
             feeds == SelectSeq(children, LAMBDA c : c.attr.xmlUrl # <<>>)
         IN [i \in 1..Len(feeds) |-> ParsedBlog(feeds[i], category)]
    ELSE IF o.attr.xmlUrl # <<>>
           THEN <<ParsedBlog(o, <<>>)>>
           ELSE <<>>

\* parseOpml(opmlContent)
ParseOpml(doc) ==
  LET body == ParseString(doc)
  IN IF body.kind = "undefined"
       THEN <<>>
       ELSE LET outlines == AsArray(body)
            IN Flatten([i \in 1..Len(outlines) |-> OutlineBlogs(outlines[i])])

\* generateOpml: const cat = blog.category || "Uncategorized"
CategoryOf(b) == Or(b.category, Uncategorized)

\* generateOpml: the keys of grouped, in the order they were first set
RECURSIVE GroupKeys(_)
GroupKeys(list) ==
  IF list = <<>> THEN <<>>
  ELSE LET before == GroupKeys(SubSeq(list, 1, Len(list) - 1))
           cat == CategoryOf(list[Len(list)])
       IN IF \E i \in 1..Len(before) : before[i] = cat
            THEN before ELSE Append(before, cat)

\* <outline text="${escapeXml(b.title)}" type="rss" xmlUrl="${escapeXml(b.feedUrl)}" .../>
FeedOutline(b) ==
  [text |-> EscapeXml(b.title), title |-> <<>>, xmlUrl |-> EscapeXml(b.feedUrl),
   outline |-> <<>>]

\* generateOpml(blogs): one <outline text="${escapeXml(category)}"> for each
\* group, holding the feed outlines of the group's blogs
GenerateOpml(list) ==
  LET keys == GroupKeys(list)
  IN [k \in 1..Len(keys) |->
        LET categoryBlogs == SelectSeq(list, LAMBDA b : CategoryOf(b) = keys[k])
        IN [text |-> EscapeXml(keys[k]), title |-> <<>>, xmlUrl |-> <<>>,
            outline |-> [i \in 1..Len(categoryBlogs) |-> FeedOutline(categoryBlogs[i])]]]

\* The attributes an <outline> of a document to import may carry: a text or,
\* without one, a title, or neither; and an xmlUrl or none
OutlineAttrs ==
  {[text |-> a[1], title |-> a[2], xmlUrl |-> u] :
     a \in {<<<<"a">>, <<>>>>, <<<<>>, <<"b">>>>, <<<<>>, <<>>>>},
     u \in {<<>>, <<"u">>}}

\* The sequences of elements with n elements in all, nested at most d deep
RECURSIVE ForestsOf(_, _)
ForestsOf(n, d) ==
  IF n = 0 THEN {<<>>}
  ELSE IF d = 0 THEN {}
  ELSE UNION {{<<[text |-> a.text, title |-> a.title, xmlUrl |-> a.xmlUrl,
                  outline |-> kids]>> \o rest :
                 a \in OutlineAttrs, kids \in ForestsOf(k - 1, d - 1),
                 rest \in ForestsOf(n - k, d)} : k \in 1..n}

OpmlDocs == UNION {ForestsOf(n, MaxDepth) : n \in 0..MaxNodes}

\* The blogs an export may be handed: a title, a feed URL, and a category or
\* none
BlogDocs ==
  [title : {<<"a">>, <<"&">>}, feedUrl : {<<"u">>, <<"v">>},
   category : {<<>>, <<"c">>, <<"<">>}]

BlogLists == UNION {[1..n -> BlogDocs] : n \in 0..MaxBlogs}

\* GET /api/opml: response.send(generateOpml(blogs, "Blogroll"))
ExportOpml(p) ==
  /\ p \in Handlers /\ pc[p] = "idle"
  /\ world.kind = "blogs"
  /\ world' = [world EXCEPT !.kind = "exported", !.doc = GenerateOpml(world.list)]
  /\ UNCHANGED <<isRunning, pc, ret, loc, store, ops>>

\* fetchAndParseOpml: return parseOpml(content), of a document to import or
\* of one that was exported
ImportOpml(p) ==
  /\ p \in Handlers /\ pc[p] = "idle"
  /\ world.kind \in {"document", "exported"}
  /\ ret.who = Null
  /\ Return(p, ParseOpml(world.doc))
  /\ UNCHANGED <<isRunning, pc, loc, store, world, ops>>

\* The program after construction, with a document to import or a list of
\* blogs to export at hand
OpmlInit ==
  /\ isRunning = FALSE
  /\ pc = [p \in Procs |-> "idle"]
  /\ ret = [who |-> Null, what |-> Null]
  /\ loc = [p \in Procs |-> LocInit]
  /\ sources = [s \in SourceIds |-> SourceInit]
  /\ blogs = {}
  /\ items = EmptyBag
  /\ meta = {}
  /\ nextBlogId = 1
  /\ world \in {[kind |-> "document", doc |-> d, list |-> <<>>] : d \in OpmlDocs}
                 \cup {[kind |-> "blogs", doc |-> <<>>, list |-> l] : l \in BlogLists}
  /\ ops = 0

OpmlNext ==
  \E p \in Handlers :
    \/ ExportOpml(p)
    \/ ImportOpml(p)

SpecOpml == OpmlInit /\ [][OpmlNext]_vars


-----------------------------------------------------------------------------
(* lib/sync/feed.js: the two parsers' item mapping.  Two feed entries are   *)
(* at hand, each with the feed it is served by and the format it is served  *)
(* in; an absent field of an entry is the empty string, its date the empty *)
(* sequence.                                                               *)

\* a || b, for fields of a feed entry
Either(a, b) == IF a # "" THEN a ELSE b

\* normalizeItem with the link tried before the guid
LinkOrGuid(item) == Either(item.link, item.guid)

\* normalizeItem: item.guid || item.link
GuidOrLink(item) == Either(item.guid, item.link)

\* parseJsonFeed: item.id || item.url
IdOrUrl(item) == Either(item.id, item.url)

\* published: the entry's own date as an ISO string, else new Date().toISOString()
PublishedOf(date, now) ==
  IF date # <<>> THEN ToISOString(NewDate(date[1])) ELSE ToISOString(NewDate(now))

\* normalizeItem(item, feedUrl): uid, url, title and published of an item
\* FeedParser hands over
NormalizeXmlItem(item, feedUrl, now) ==
  [uid |-> GenerateUid(feedUrl, GuidOrLink(item)),
   url |-> item.link,
   title |-> Either(item.title, "Untitled"),
   published |-> PublishedOf(item.pubdate, now)]

\* parseJsonFeed: the same fields of an entry of feed.items
NormalizeJsonItem(item, feedUrl, now) ==
  [uid |-> GenerateUid(feedUrl, IdOrUrl(item)),
   url |-> item.url,
   title |-> Either(item.title, "Untitled"),
   published |-> PublishedOf(item.date_published, now)]

\* What the feed's own id, link, title and date of an entry are called in
\* the item FeedParser emits, and in an entry of a JSON Feed
AsXmlItem(e) == [guid |-> e.id, link |-> e.link, title |-> e.title, pubdate |-> e.date]
AsJsonItem(e) == [id |-> e.id, url |-> e.link, title |-> e.title, date_published |-> e.date]

\* fetchAndParseFeed: the JSON parser for a JSON body, the XML one otherwise
ParseEntry(shape, e, feedUrl, now) ==
  IF shape = "json"
    THEN NormalizeJsonItem(AsJsonItem(e), feedUrl, now)
    ELSE NormalizeXmlItem(AsXmlItem(e), feedUrl, now)

FeedEntries ==
  [id : {"", "g"}, link : {"", "g", "l"}, title : {"", "t"}, date : {<<>>, <<0>>}]

FeedInputs ==
  [kind : {"entries"}, feedUrl : [1..2 -> Urls], shape : [1..2 -> {"xml", "json"}],
   entry : [1..2 -> FeedEntries]]

\* The first entry is parsed
ParseFirst(p) ==
  /\ p \in Handlers /\ pc[p] = "idle"
  /\ ret.who = Null
  /\ \E now \in Clock :
       Return(p, <<ParseEntry(world.shape[1], world.entry[1], world.feedUrl[1], now)>>)
  /\ UNCHANGED <<isRunning, pc, loc, store, world, ops>>

\* The second entry is parsed, at a time of its own
ParseSecond(p) ==
  /\ p \in Handlers /\ pc[p] = "idle"
  /\ ret.who = p /\ Len(ret.what) = 1
  /\ \E now \in Clock :
       Return(p, Append(ret.what,
                        ParseEntry(world.shape[2], world.entry[2], world.feedUrl[2], now)))
  /\ UNCHANGED <<isRunning, pc, loc, store, world, ops>>

FeedInit ==
  /\ isRunning = FALSE
  /\ pc = [p \in Procs |-> "idle"]
  /\ ret = [who |-> Null, what |-> Null]
  /\ loc = [p \in Procs |-> LocInit]
  /\ sources = [s \in SourceIds |-> SourceInit]
  /\ blogs = {}
  /\ items = EmptyBag
  /\ meta = {}
  /\ nextBlogId = 1
  /\ world \in FeedInputs
  /\ ops = 0

FeedNext ==
  \E p \in Handlers :
    \/ ParseFirst(p)
    \/ ParseSecond(p)

SpecFeed == FeedInit /\ [][FeedNext]_vars

-----------------------------------------------------------------------------
(* lib/sync/feedland.js: syncFeedlandSource.  The source record carries the *)
(* remote instance, the account name and the category filter (the empty     *)
(* string for null); the remote instance serves a subscription list.        *)

MaxListNodes == 2

FeedlandSources ==
  [feedlandInstance : {<<>>, <<"i">>}, feedlandUsername : {<<>>, <<"n">>},
   feedlandCategory : {<<>>, <<"c">>}]

\* The source controller's create: instance and account name are required
CreatedFeedlandSources ==
  {s \in FeedlandSources : s.feedlandInstance # <<>> /\ s.feedlandUsername # <<>>}

FeedlandLists == UNION {ForestsOf(n, 2) : n \in 0..MaxListNodes}

\* const category = blog.category || source.feedlandCategory || source.feedlandUsername || ""
FeedlandCategory(blog, source) ==
  Or(blog.category, Or(source.feedlandCategory, Or(source.feedlandUsername, <<>>)))

\* The blogData syncFeedlandSource hands to upsertBlog
FeedlandBlogData(blog, source) ==
  [title |-> blog.title, feedUrl |-> blog.feedUrl,
   category |-> FeedlandCategory(blog, source), source |-> "feedland"]

\* sources controller, update: the three fields are stored as submitted,
\* each of them null when left blank
UpdateFeedlandSource(p) ==
  /\ p \in Handlers /\ pc[p] = "idle"
  /\ world.kind = "feedland" /\ ret.who = Null
  /\ ops < MaxOps
  /\ \E s \in FeedlandSources : world' = [world EXCEPT !.source = s]
  /\ ops' = ops + 1
  /\ UNCHANGED <<isRunning, pc, ret, loc, store>>

\* syncFeedlandSource: buildFeedlandOpmlUrl throws on a null instance, and
\* the catch returns the failure; else every candidate of the list is
\* upserted with its resolved category
SyncFeedland(p) ==
  /\ p \in Handlers /\ pc[p] = "idle"
  /\ world.kind = "feedland" /\ ret.who = Null
  /\ IF world.source.feedlandInstance = <<>>
       THEN Return(p, [success |-> FALSE, upserts |-> <<>>])
       ELSE LET parsed == ParseOpml(world.doc)
            IN Return(p, [success |-> TRUE,
                          upserts |-> [i \in 1..Len(parsed) |->
                                         FeedlandBlogData(parsed[i], world.source)]])
  /\ UNCHANGED <<isRunning, pc, loc, store, world, ops>>

FeedlandInit ==
  /\ isRunning = FALSE
  /\ pc = [p \in Procs |-> "idle"]
  /\ ret = [who |-> Null, what |-> Null]
  /\ loc = [p \in Procs |-> LocInit]
  /\ sources = [s \in SourceIds |-> SourceInit]
  /\ blogs = {}
  /\ items = EmptyBag
  /\ meta = {}
  /\ nextBlogId = 1
  /\ world \in {[kind |-> "feedland", source |-> s, doc |-> d] :
                  s \in CreatedFeedlandSources, d \in FeedlandLists}
  /\ ops = 0

FeedlandNext ==
  \E p \in Handlers :
    \/ UpdateFeedlandSource(p)
    \/ SyncFeedland(p)

SpecFeedland == FeedlandInit /\ [][FeedlandNext]_vars

-----------------------------------------------------------------------------
(* lib/sync/opml.js: handleMicrosubWebhook, unsubscribe *)

\* existing.source?.startsWith("microsub")
StartsWithMicrosub(source) == source \in {"microsub", "microsub-webhook"}

\* const existing = await getBlogByFeedUrl(application, url);
\* if (existing && existing.source?.startsWith("microsub")) ... else
\* return {action: "skipped"}
WebhookUnsubscribe(p) ==
  /\ p \in Handlers /\ pc[p] = "idle" /\ ops < MaxOps
  /\ world.avail
  /\ \E url \in Urls :
       LET found == GetBlogByFeedUrl(blogs, url)
           data == [feedUrl |-> url, action |-> "unsubscribe"]
       IN IF found # {} /\ StartsWithMicrosub(FirstOf(found).source)
            THEN /\ SetLoc(p, [loc[p] EXCEPT !.data = data,
                                             !.blog = Snapshot(FirstOf(found))])
                 /\ SetPc(p, "hookDeactivate")
            ELSE /\ SetLoc(p, [loc[p] EXCEPT !.data = data, !.result = "skipped"])
                 /\ UNCHANGED pc
  /\ ops' = ops + 1
  /\ UNCHANGED <<isRunning, ret, store, world>>

\* updateOne({_id: existing._id}, {$set: {status: "inactive", ...}});
\* return {action: "deactivated"}
WebhookDeactivate(p) ==
  /\ pc[p] = "hookDeactivate"
  /\ blogs' = {IF b.id = loc[p].blog.id THEN [b EXCEPT !.status = "inactive"] ELSE b :
                 b \in blogs}
  /\ SetLoc(p, [loc[p] EXCEPT !.result = "deactivated", !.blog = <<>>])
  /\ SetPc(p, "idle")
  /\ UNCHANGED <<isRunning, ret, sources, items, meta, nextBlogId, world, ops>>

\* The scheduler's interval timer and the webhook of the foreign subsystem
HookNext ==
  \E p \in {"interval"} \cup Handlers :
    \/ RunStart(p)
    \/ Sweep(p)
    \/ GetSources(p)
    \/ AdapterFetch(p)
    \/ UpsertBlogCheck(p)
    \/ UpsertBlogWrite(p)
    \/ OrphanDetection(p)
    \/ AdapterSuccess(p)
    \/ AdapterFailure(p)
    \/ GetBlogsStep(p)
    \/ FetchFeed(p)
    \/ UpsertItemStep(p)
    \/ SyncSuccess(p)
    \/ SyncFailure(p)
    \/ WriteStats(p)
    \/ RunReturn(p)
    \/ WebhookSubscribe(p)
    \/ WebhookUpsertCheck(p)
    \/ WebhookUpsertWrite(p)
    \/ WebhookUnsubscribe(p)
    \/ WebhookDeactivate(p)

SpecHook == Init /\ [][HookNext]_vars

-----------------------------------------------------------------------------
(* lib/storage/sources.js: deleteSource, called by the sources controller's *)
(* remove; its four store calls are awaited one after the other             *)

\* const source = await getSource(application, id); if (!source) -> 404;
\* deleteSource: const blogs = await find({sourceId}).toArray();
\* const blogIds = blogs.map((b) => b._id)
DeleteSourceFind(p) ==
  /\ p \in Handlers /\ pc[p] = "idle" /\ ops < MaxOps
  /\ \E s \in SourceIds :
       /\ sources[s].present
       /\ SetLoc(p, [loc[p] EXCEPT !.source = s,
                                   !.blogs = {Snapshot(b) : b \in {r \in blogs : r.sourceId = s}}])
  /\ SetPc(p, "delSourceItems")
  /\ ops' = ops + 1
  /\ UNCHANGED <<isRunning, ret, store, world>>

\* if (blogIds.length > 0) await deleteMany({blogId: {$in: blogIds}})
DeleteSourceItems(p) ==
  /\ pc[p] = "delSourceItems"
  /\ items' = DeleteItemsOf(items, {b.id : b \in loc[p].blogs})
  /\ SetPc(p, "delSourceBlogs")
  /\ UNCHANGED <<isRunning, ret, loc, sources, blogs, meta, nextBlogId, world, ops>>

\* await db.collection("blogrollBlogs").deleteMany({sourceId: objectId})
DeleteSourceBlogs(p) ==
  /\ pc[p] = "delSourceBlogs"
  /\ blogs' = {b \in blogs : b.sourceId # loc[p].source}
  /\ SetPc(p, "delSourceRow")
  /\ UNCHANGED <<isRunning, ret, loc, sources, items, meta, nextBlogId, world, ops>>

\* const result = await db.collection("blogrollSources").deleteOne({_id: objectId})
DeleteSourceRow(p) ==
  /\ pc[p] = "delSourceRow"
  /\ sources' = [sources EXCEPT ![loc[p].source].present = FALSE]
  /\ SetLoc(p, [loc[p] EXCEPT !.result = "deleted"])
  /\ SetPc(p, "idle")
  /\ UNCHANGED <<isRunning, ret, blogs, items, meta, nextBlogId, world, ops>>

\* The scheduler's interval timer and the operator deleting a source
DeleteSourceNext ==
  \E p \in {"interval"} \cup Handlers :
    \/ RunStart(p)
    \/ Sweep(p)
    \/ GetSources(p)
    \/ AdapterFetch(p)
    \/ UpsertBlogCheck(p)
    \/ UpsertBlogWrite(p)
    \/ OrphanDetection(p)
    \/ AdapterSuccess(p)
    \/ AdapterFailure(p)
    \/ GetBlogsStep(p)
    \/ FetchFeed(p)
    \/ UpsertItemStep(p)
    \/ SyncSuccess(p)
    \/ SyncFailure(p)
    \/ WriteStats(p)
    \/ RunReturn(p)
    \/ DeleteSourceFind(p)
    \/ DeleteSourceItems(p)
    \/ DeleteSourceBlogs(p)
    \/ DeleteSourceRow(p)

SpecDeleteSource == Init /\ [][DeleteSourceNext]_vars

-----------------------------------------------------------------------------
(* controllers/sources.js update: the operator edits a source, and with it  *)
(* its enabled flag                                                         *)

\* const source = await getSource(application, id); if (!source) -> 404
UpdateSourceGet(p) ==
  /\ p \in Handlers /\ pc[p] = "idle" /\ ops < MaxOps
  /\ \E s \in SourceIds, e \in BOOLEAN :
       /\ sources[s].present
       /\ SetLoc(p, [loc[p] EXCEPT !.source = s, !.data = [enabled |-> e]])
  /\ SetPc(p, "updateSource")
  /\ ops' = ops + 1
  /\ UNCHANGED <<isRunning, ret, store, world>>

\* sources.js updateSource: findOneAndUpdate({_id}, {$set: {...data}})
UpdateSource(srcs, id, data) ==
  [s \in SourceIds |->
     IF s = id /\ srcs[s].present
       THEN [srcs[s] EXCEPT !.enabled = data.enabled]
       ELSE srcs[s]]

\* await updateSource(application, id, updateData); redirect
UpdateSourceWrite(p) ==
  /\ pc[p] = "updateSource"
  /\ sources' = UpdateSource(sources, loc[p].source, loc[p].data)
  /\ SetLoc(p, LocInit)
  /\ SetPc(p, "idle")
  /\ UNCHANGED <<isRunning, ret, blogs, items, meta, nextBlogId, world, ops>>

\* The scheduler next to an operator who edits a source
UpdateSourceNext ==
  \/ SchedNext
  \/ \E p \in Handlers :
       \/ UpdateSourceGet(p)
       \/ UpdateSourceWrite(p)

SpecUpdateSource == Init /\ [][UpdateSourceNext]_vars


-----------------------------------------------------------------------------
(* lib/sync/scheduler.js: startSync, stopSync.  The plugin's init calls      *)
(* startSync and its destroy calls stopSync.  The world holds the timers of  *)
(* the runtime: the number of pending startup timeouts and the handles of    *)
(* the live intervals; syncInterval is the module's variable, 0 for null.    *)

MaxStarts == 2

\* The timers before the first startSync
TimerWorld(w) ==
  [list |-> w.list, avail |-> w.avail, subs |-> w.subs, feed |-> w.feed,
   timeouts |-> 0, intervals |-> {}, syncInterval |-> 0, nextHandle |-> 1,
   stopped |-> FALSE]

TimerInit ==
  /\ isRunning = FALSE
  /\ pc = [p \in Procs |-> "idle"]
  /\ ret = [who |-> Null, what |-> Null]
  /\ loc = [p \in Procs |-> LocInit]
  /\ sources = [s \in SourceIds |-> SourceInit]
  /\ blogs = {}
  /\ items = EmptyBag
  /\ meta = {}
  /\ nextBlogId = 1
  /\ world \in {TimerWorld(w) : w \in {v \in Worlds : WellFormed(v)}}
  /\ ops = 0

\* startSync: setTimeout(..., 15000), whose handle is dropped;
\* syncInterval = setInterval(..., interval), whatever syncInterval held
StartSync ==
  /\ world.nextHandle <= MaxStarts /\ ~world.stopped
  /\ world' = [world EXCEPT !.timeouts = @ + 1,
                            !.intervals = @ \cup {world.nextHandle},
                            !.syncInterval = world.nextHandle,
                            !.nextHandle = @ + 1]
  /\ UNCHANGED <<isRunning, pc, ret, loc, store, ops>>

\* stopSync: if (syncInterval) { clearInterval(syncInterval); syncInterval = null }
\* stopped tells that stopSync has returned
StopSync ==
  /\ ~world.stopped
  /\ world' = IF world.syncInterval # 0
                THEN [world EXCEPT !.intervals = @ \ {world.syncInterval},
                                   !.syncInterval = 0, !.stopped = TRUE]
                ELSE [world EXCEPT !.stopped = TRUE]
  /\ UNCHANGED <<isRunning, pc, ret, loc, store, ops>>

\* The startup timeout's callback, up to the first await of runFullSync:
\* the in-progress check and isRunning = true
TimeoutFires ==
  /\ world.timeouts > 0 /\ pc["startup"] \in {"idle", "done"}
  /\ world' = [world EXCEPT !.timeouts = @ - 1]
  /\ IF isRunning
       THEN /\ Return("startup", "skipped")
            /\ SetPc("startup", "done")
            /\ UNCHANGED <<isRunning, loc, store, ops>>
       ELSE /\ isRunning' = TRUE
            /\ SetPc("startup", "sweep")
            /\ UNCHANGED <<ret, loc, store, ops>>

\* The callback of a live interval, up to the first await of runFullSync
IntervalFires ==
  /\ world.intervals # {}
  /\ \/ RunStart("interval")
     \/ RunSkipped("interval")

\* The plugin is initialized, perhaps more than once, and then destroyed;
\* its timers fire in between and afterwards.
TimerNext ==
  \/ StartSync
  \/ StopSync
  \/ TimeoutFires
  \/ IntervalFires
  \/ \E p \in {"startup", "interval"} :
       \/ Sweep(p)
       \/ GetSources(p)
       \/ AdapterFetch(p)
       \/ UpsertBlogCheck(p)
       \/ UpsertBlogWrite(p)
       \/ OrphanDetection(p)
       \/ AdapterSuccess(p)
       \/ AdapterFailure(p)
       \/ GetBlogsStep(p)
       \/ FetchFeed(p)
       \/ UpsertItemStep(p)
       \/ SyncSuccess(p)
       \/ SyncFailure(p)
       \/ WriteStats(p)
       \/ RunReturn(p)

SpecTimer == TimerInit /\ [][TimerNext]_vars


-----------------------------------------------------------------------------
(* The run to its end: every await of a run that has started settles, so   *)
(* the continuation that waits for it is run in the end.                    *)

\* The steps of p's run after its start
RunBody(p) ==
  \/ Sweep(p)
  \/ GetSources(p)
  \/ AdapterFetch(p)
  \/ UpsertBlogCheck(p)
  \/ UpsertBlogWrite(p)
  \/ OrphanDetection(p)
  \/ AdapterSuccess(p)
  \/ AdapterFailure(p)
  \/ GetBlogsStep(p)
  \/ FetchFeed(p)
  \/ UpsertItemStep(p)
  \/ SyncSuccess(p)
  \/ SyncFailure(p)
  \/ WriteStats(p)
  \/ RunReturn(p)
  \/ RunCatch(p)

SpecLive ==
  /\ Init /\ [][FaultNext]_vars
  /\ \A p \in {"interval", "manual"} : WF_vars(RunBody(p))


-----------------------------------------------------------------------------
(* The mirror source while the foreign feed set changes: the interval       *)
(* timer's runs, and a foreign subsystem that drops a feed and takes feeds  *)
(* up (again).                                                              *)

\* The foreign subsystem adds a feed to the channels the mirror source reads
Subscribe ==
  /\ world.avail
  /\ \E u \in Urls \ world.subs : world' = [world EXCEPT !.subs = @ \cup {u}]
  /\ UNCHANGED <<isRunning, pc, ret, loc, store, ops>>

MirrorNext ==
  \/ \E p \in {"interval"} :
       \/ RunStart(p)
       \/ Sweep(p)
       \/ GetSources(p)
       \/ AdapterFetch(p)
       \/ UpsertBlogCheck(p)
       \/ UpsertBlogWrite(p)
       \/ OrphanDetection(p)
       \/ AdapterSuccess(p)
       \/ AdapterFailure(p)
       \/ GetBlogsStep(p)
       \/ FetchFeed(p)
       \/ UpsertItemStep(p)
       \/ SyncSuccess(p)
       \/ SyncFailure(p)
       \/ WriteStats(p)
       \/ RunReturn(p)
  \/ Unsubscribe
  \/ Subscribe

SpecMirror == Init /\ [][MirrorNext]_vars


-----------------------------------------------------------------------------
(* Single flight *)

\* A caller is in the body of a run from `isRunning = true` up to the
\* `finally` that clears the flag.
InBody(p) == pc[p] \notin OutsidePcs

\* C1: at most one invocation of runFullSync is executing the body of a run
\* (past the in-progress check) at any time, whichever of the startup timer,
\* the interval timer and the manual trigger call it and however their calls
\* interleave.
C1_SingleFlight == Cardinality({p \in Callers : InBody(p)}) <= 1

\* A run is in its body and a second entry point has just been turned away.
C1_Witness ==
  \E p \in Callers : InBody(p) /\ ret.what = "skipped" /\ ret.who # p

\* C2: a call that arrives while a run is active returns {skipped: true} in
\* that same step, writes nothing to sources, blogs, items or statistics,
\* leaves the flag set, and leaves nothing behind that would run later: the
\* caller is back at rest with its locals untouched, and a one-shot startup
\* call that was turned away never runs.
C2_SkipIsInert ==
  [][(\A p \in Callers :
        (isRunning /\ pc[p] = "idle" /\ (pc'[p] # pc[p] \/ (ret' # ret /\ ret'.who = p)))
          => (/\ ret' = [who |-> p, what |-> "skipped"]
              /\ store' = store
              /\ isRunning'
              /\ ~InBody(p)' /\ loc' = loc
              /\ \A q \in Callers \ {p} : pc'[q] = pc[q]))
     /\ (pc["startup"] = "done" => pc'["startup"] = "done")]_vars

\* The startup call was turned away and the run that caused it is still active.
C2_Witness ==
  /\ ret = [who |-> "startup", what |-> "skipped"]
  /\ pc["startup"] = "done"
  /\ \E p \in Callers : InBody(p) /\ pc[p] # "sweep"

-----------------------------------------------------------------------------
(* Soft-delete suppression *)

\* Some blog row with this feed URL is deleted, whoever owns it.
DeletedUrl(url) == \E b \in blogs : b.feedUrl = url /\ b.status = "deleted"

\* p takes a step of its own.
Moves(p) == pc'[p] # pc[p] \/ loc'[p] # loc[p]

\* C3: when upsertBlog is handed a candidate whose feed URL has a deleted
\* row, it changes no blog row, creates none, and returns skippedDeleted: the
\* adapter goes on to its next candidate without a write and without
\* counting the candidate as added or updated.  The same holds for the
\* upsertBlog the webhook calls.
C3_UpsertSkipsDeleted ==
  [][\A p \in Procs :
       /\ (pc[p] = "upsertLoop" /\ loc[p].cands # {} /\ Moves(p)
           /\ DeletedUrl(MinOf(loc[p].cands)))
            => (/\ blogs' = blogs /\ nextBlogId' = nextBlogId
                /\ loc'[p].result = "skippedDeleted"
                /\ pc'[p] = "upsertLoop"
                /\ loc'[p].added = loc[p].added /\ loc'[p].updated = loc[p].updated)
       /\ (pc[p] = "hookCheck" /\ Moves(p) /\ DeletedUrl(loc[p].data.feedUrl))
            => (blogs' = blogs /\ nextBlogId' = nextBlogId /\ pc'[p] = "idle")]_vars

\* A source sync has just skipped a feed URL the operator deleted: the row is
\* still deleted and it is the only row with that URL.
C3_Witness ==
  \E p \in Callers :
    /\ pc[p] = "upsertLoop" /\ loc[p].result = "skippedDeleted"
    /\ \E b \in blogs :
         /\ b.status = "deleted"
         /\ b.feedUrl \in Listed(world, loc[p].source) \ loc[p].cands
         /\ \A o \in blogs : o.feedUrl = b.feedUrl => o = b

\* C4: once a blog's status is deleted, no step of a full run (source sync
\* or per-blog item sync) changes it to anything else, however the
\* operator's deleteBlog interleaves with the run.
C4_DeletedStaysDeleted ==
  [][\A p \in Callers :
       Moves(p) =>
         \A b \in blogs :
           b.status = "deleted" => \E c \in blogs' : c.id = b.id /\ c.status = "deleted"]_vars

\* C5: at most one blog row with a non-deleted status exists per feed URL.
C5_OneBlogPerFeedUrl ==
  \A u \in Urls : Cardinality(GetBlogByFeedUrl(blogs, u)) <= 1

-----------------------------------------------------------------------------
(* Items *)

\* The stored items with the key (blogId, uid), copies counted
CountOf(id, uid) ==
  BagCardinality(BagFilter(items, LAMBDA i : i.blogId = id /\ i.uid = uid))

\* C6: syncing a blog again whose feed returns the same items inserts
\* nothing (added = 0), and the store holds exactly one item per
\* (blogId, uid): never two, and after the last upsert of a sync one for
\* every item of the feed.
C6_SyncIdempotent ==
  /\ \A i \in BagToSet(items) : CountOf(i.blogId, i.uid) = 1
  /\ \A p \in Procs :
       pc[p] = "itemLoop" =>
         LET b == loc[p].blog
         IN /\ b.lastFetchAt => loc[p].itemsAdded = 0
            /\ loc[p].feedQ = {} =>
                 \A i \in world.feed[b.feedUrl].items :
                   CountOf(b.id, GenerateUid(b.feedUrl, i)) = 1

\* A blog that was synced before has been synced again, all the items of its
\* feed have gone through upsertItem a second time, and none was added.
C6_Witness ==
  \E p \in Callers :
    /\ pc[p] = "itemLoop" /\ loc[p].feedQ = {}
    /\ loc[p].blog.lastFetchAt
    /\ loc[p].feedLen = NumItemIds /\ loc[p].itemsAdded = 0
    /\ BagCardinality(items) >= NumItemIds

\* C7: the retention sweep deletes all and only the items published strictly
\* before its cutoff (now minus maxItemAge days), keeps an item published
\* exactly at the cutoff or later, and returns the number it deleted.
C7_SweepDeletesOld ==
  [][\A p \in Callers :
       (pc[p] = "sweep" /\ Moves(p)) =>
         LET cutoff == loc'[p].cutoff.t
             kept == BagFilter(items, LAMBDA i : ~(i.published.t < cutoff))
         IN /\ items' = kept
            /\ loc'[p].deletedItems = BagCardinality(items) - BagCardinality(kept)]_vars

-----------------------------------------------------------------------------
(* Error isolation *)

\* The blog row with this _id
Row(id) == CHOOSE r \in blogs : r.id = id

\* The blogs a run enumerated and fetches, and those whose feed fails
Fetchable(l) == {b \in l.blogs : ~b.skip}
FailingBlogs(l) == {b \in Fetchable(l) : ~world.feed[b.feedUrl].ok}

\* The enabled sources of a run whose document cannot be read
FailingSources(l) == {s \in l.enabledSources : ~Readable(world, s)}

RECURSIVE FeedSizes(_)
\* The number of items the feeds of these blogs bear, in all
FeedSizes(B) ==
  IF B = {} THEN 0
  ELSE LET b == CHOOSE x \in B : TRUE
       IN Cardinality(world.feed[b.feedUrl].items) + FeedSizes(B \ {b})

\* The run of p returns {success: true, ...}
ReturnsSuccess(p) ==
  (pc[p] = "return" /\ Moves(p)) => (ret' = [who |-> p, what |-> "success"] /\ ~isRunning')

\* What the blog stage leaves behind when nobody else writes to the store
BlogStageIsolated(p) ==
  LET l == loc[p]
      failing == FailingBlogs(l)
      fine == Fetchable(l) \ failing
  IN /\ l.blogsFailed = Cardinality(failing)
     /\ l.blogsSuccess = Cardinality(fine)
     /\ l.newItems = FeedSizes({b \in fine : ~b.lastFetchAt})
     /\ \A b \in failing : Row(b.id).status = "error" /\ Row(b.id).lastError = "error"
     /\ \A b \in fine :
          /\ Row(b.id).status = "active" /\ Row(b.id).lastError = Null
          /\ Row(b.id).lastFetchAt
          /\ \A i \in world.feed[b.feedUrl].items :
               CountOf(b.id, GenerateUid(b.feedUrl, i)) = 1
     /\ meta = {RunStats(l)}

\* C8: in a full run, the blogs whose feed fetch or parse fails, and they
\* alone, are tallied as failed and get the error recorded; every other
\* fetchable blog is synced and tallied as if nothing had failed, wherever
\* the failing blog stands in the iteration; the statistics are written and
\* the run returns success: true.  With one failing feed, blogs.failed = 1.
C8_BlogFailureIsolated ==
  /\ [](\A p \in Callers : pc[p] = "return" => BlogStageIsolated(p))
  /\ [][\A p \in Callers : ReturnsSuccess(p)]_vars

\* A run over two fetchable blogs of which exactly one failed is about to
\* return.
C8_Witness ==
  \E p \in Callers :
    /\ pc[p] = "return"
    /\ Cardinality(Fetchable(loc[p])) = 2
    /\ Cardinality(FailingBlogs(loc[p])) = 1
    /\ loc[p].blogsFailed = 1 /\ loc[p].blogsSuccess = 1

\* What the source stage and the stages after it leave behind when nobody
\* else writes to the store
SourceStageIsolated(p) ==
  LET l == loc[p]
      failing == FailingSources(l)
      fine == l.enabledSources \ failing
  IN /\ l.sourcesFailed = Cardinality(failing)
     /\ l.sourcesSuccess = Cardinality(fine)
     /\ \A s \in failing : sources[s].lastSyncError = "error"
     /\ \A s \in fine :
          /\ sources[s].synced /\ sources[s].lastSyncError = Null
          /\ \A u \in Listed(world, s) : \E b \in blogs : b.feedUrl = u /\ b.sourceId = s
     /\ l.blogsSuccess + l.blogsFailed + l.blogsSkipped = Cardinality(l.blogs)
     /\ {b.id : b \in l.blogs} = {b.id : b \in GetBlogs(blogs)}
     /\ \E m \in meta : m.sources.failed = Cardinality(failing)

\* C9: when the sync of an enabled source fails, every other enabled source
\* is still synced in the same run, the blog stage and the statistics write
\* still take place, sources.failed is the number of failing sources and the
\* run returns success: true.
C9_SourceFailureIsolated ==
  /\ [](\A p \in Callers : pc[p] = "return" => SourceStageIsolated(p))
  /\ [][\A p \in Callers : ReturnsSuccess(p)]_vars

\* A run with one failing source and one source that listed a feed and was
\* synced is about to return.
C9_Witness ==
  \E p \in Callers :
    /\ pc[p] = "return"
    /\ Cardinality(loc[p].enabledSources) = 2
    /\ Cardinality(FailingSources(loc[p])) = 1
    /\ \E s \in loc[p].enabledSources \ FailingSources(loc[p]) :
         Listed(world, s) # {} /\ sources[s].synced
    /\ loc[p].blogs # {}

-----------------------------------------------------------------------------
(* Mirror sources *)

\* C10: when a mirror sync of a source succeeds, every blog with provenance
\* microsub and that sourceId whose foreign feed id is not in the foreign
\* feed set the sync has read is deleted and hidden, and the sync soft-deletes
\* no other blog; whatever the foreign feed set, the empty one included.
C10_OrphansDeleted ==
  [][\A p \in Callers :
       (/\ pc[p] \in {"upsertLoop", "adapterStatus"} /\ pc'[p] = "srcLoop"
        /\ SourceType(loc[p].source) = "microsub")
         => /\ \A b \in blogs' :
                 (/\ b.source = "microsub" /\ b.sourceId = loc[p].source
                  /\ b.microsubFeedId \notin loc[p].currentMicrosubFeedIds)
                   => (b.status = "deleted" /\ b.hidden)
            /\ \A b \in blogs :
                 b.status # "deleted" => \E c \in blogs' : c.id = b.id /\ c.status # "deleted"]_vars

-----------------------------------------------------------------------------
(* Failures of the store *)

\* C11: runFullSync never throws: when one of its own store calls (the
\* retention sweep, the enumeration of sources or blogs, the statistics
\* write) rejects, the run returns {success: false, error}, clears the flag,
\* and leaves in place what it has written so far; a caller only ever leaves
\* the body of a run with a returned result.
C11_NeverThrows ==
  [][\A p \in Callers :
       (InBody(p) /\ ~InBody(p)') =>
         /\ ret'.who = p /\ ret'.what \in {"success", "failure"}
         /\ ~isRunning'
         /\ store' = store
         /\ StoreCallNext(p) => ret'.what = "failure"]_vars

\* A run has failed at its statistics write: it returned {success: false},
\* and the blogs and items it wrote before are still there.
C11_Witness ==
  /\ ret.what = "failure" /\ ~isRunning
  /\ meta = {}
  /\ \E b \in blogs : b.lastFetchAt /\ CountOf(b.id, GenerateUid(b.feedUrl, 1)) = 1

-----------------------------------------------------------------------------
(* Insert-only fields *)

\* C12: the updateOne of upsertBlog leaves the insert-only fields a blog row
\* carries (hidden, lastError) and its feed URL as they were on every existing
\* row, removes no row, and touches no row its filter does not match.
C12_InsertOnlyKept ==
  [][\A p \in Procs :
       (pc[p] \in {"upsertWrite", "hookWrite"} /\ Moves(p)) =>
         \A b \in blogs :
           /\ \E c \in blogs' :
                /\ c.id = b.id /\ c.feedUrl = b.feedUrl
                /\ c.hidden = b.hidden /\ c.lastError = b.lastError
           /\ b \notin UpsertFilter(blogs, loc[p].data) => b \in blogs']_vars

\* A source sync has just updated a blog it listed before, whose last item
\* sync had failed: the row still carries the error.
C12_Witness ==
  \E p \in Callers :
    /\ pc[p] = "upsertLoop" /\ loc[p].result = "modified"
    /\ \E b \in blogs :
         /\ b.sourceId = loc[p].source /\ b.lastError = "error"
         /\ b.feedUrl \in Listed(world, loc[p].source) \ loc[p].cands

-----------------------------------------------------------------------------
(* Source status *)

-----------------------------------------------------------------------------
(* Clear and resync *)

\* C14: clearAndResync called while no run is active removes every item,
\* no blog and no source; sets status active, lastFetchAt null and lastError
\* null on every blog that is not deleted and leaves the deleted ones as they
\* are; and then executes a full run (it enters the body of runFullSync).
C14_ClearThenRun ==
  [][\A p \in Callers :
       /\ (pc[p] = "idle" /\ pc'[p] = "resetBlogs" /\ ~isRunning)
            => (items' = EmptyBag /\ blogs' = blogs /\ sources' = sources)
       /\ (pc[p] = "resetBlogs" /\ Moves(p) /\ ~loc[p].runningAtCall)
            => /\ items' = items /\ sources' = sources
               /\ {b.id : b \in blogs'} = {b.id : b \in blogs}
               /\ \A b \in blogs :
                    IF b.status = "deleted"
                      THEN b \in blogs'
                      ELSE \E c \in blogs' :
                             /\ c.id = b.id /\ c.status = "active"
                             /\ ~c.lastFetchAt /\ c.lastError = Null
       /\ (pc[p] = "resync" /\ Moves(p) /\ ~loc[p].runningAtCall)
            => InBody(p)']_vars

-----------------------------------------------------------------------------
(* Run statistics *)

\* C15: the statistics collection never holds more than one record; a run
\* that gets to its end has overwritten it with its own counts; and nothing
\* but the statistics write of a run changes it, so a skipped call, or a run
\* that fails at or before that write, leaves the previous record as it was.
C15_OneStatsRecord ==
  /\ [](/\ Cardinality(meta) <= 1
        /\ \A p \in Callers : pc[p] = "return" => meta = {RunStats(loc[p])})
  /\ [][meta' # meta =>
          \E p \in Callers :
            /\ pc[p] = "blogLoop" /\ pc'[p] = "return"
            /\ meta' = {RunStats(loc[p])}]_vars

\* A run has failed after an earlier one had completed: the record of the
\* earlier run, which had added items, is still the one stored.
C15_Witness ==
  /\ ret.what = "failure" /\ ~isRunning
  /\ \E m \in meta : m.items.added > 0 /\ m.blogs.total > 0

-----------------------------------------------------------------------------
(* Mirror-sourced blogs *)

Mirrored(id) == \E b \in blogs : b.id = id /\ (b.source = "microsub" \/ b.skipItemFetch)

BlogStagePcs == {"blogLoop", "itemLoop", "syncCatch", "return"}

\* C16: a full run never hands a mirror-sourced blog (source "microsub") or
\* one flagged skipItemFetch to syncBlogItems, so it neither fetches its feed
\* nor writes an item for it; each such listed blog is counted as skipped;
\* and in every state no stored item belongs to a mirror-sourced blog.
C16_MirrorBlogsSkipped ==
  /\ \A p \in Callers :
       /\ pc[p] \in {"itemLoop", "syncCatch"} => ~Mirrored(loc[p].blog.id)
       /\ pc[p] \in BlogStagePcs =>
            /\ \A b \in loc[p].blogQ : ~Mirrored(b.id)
            /\ loc[p].blogsSkipped = Cardinality({b \in loc[p].blogs : Mirrored(b.id)})
  /\ \A i \in BagToSet(items) : ~Mirrored(i.blogId)

\* A run is returning that skipped a mirror-sourced blog whose feed would
\* have had entries, and stored the items of another blog.
C16_Witness ==
  \E p \in Callers :
    /\ pc[p] = "return"
    /\ loc[p].blogsSkipped >= 1 /\ loc[p].blogsSuccess >= 1
    /\ items # EmptyBag
    /\ \E b \in loc[p].blogs :
         Mirrored(b.id) /\ world.feed[b.feedUrl].ok /\ world.feed[b.feedUrl].items # {}

-----------------------------------------------------------------------------
(* Blog status *)

\* C17: in every reachable state the status of every blog row is one of
\* "active", "error" and "deleted".
C17_StatusOneOfThree ==
  \A b \in blogs : b.status \in {"active", "error", "deleted"}

-----------------------------------------------------------------------------
(* Retention *)

\* C18: when a full run returns success, no stored item is older than the
\* cutoff that run computed from its retention (maxItemAge days before the
\* run's sweep), whatever entries the feeds carry.
C18_NothingOlderThanCutoff ==
  \A p \in Callers :
    pc[p] = "return" =>
      \A i \in BagToSet(items) : i.published.t >= loc[p].cutoff.t

-----------------------------------------------------------------------------
(* Subscription lists *)

BagOfSeq(s) ==
  [x \in {s[i] : i \in DOMAIN s} |-> Cardinality({i \in DOMAIN s : s[i] = x})]

\* The feed entries of a document that are leaves at or below an element
RECURSIVE LeafFeeds(_)
LeafFeeds(e) ==
  IF e.outline = <<>>
    THEN IF e.xmlUrl # <<>> THEN <<e>> ELSE <<>>
    ELSE Flatten([i \in 1..Len(e.outline) |-> LeafFeeds(e.outline[i])])

\* What the feed entries of a document should become: a top-level feed entry
\* without children has no category, a leaf feed entry below a top-level
\* folder has the folder's label
EntriesOf(t) ==
  IF t.outline = <<>>
    THEN IF t.xmlUrl # <<>> THEN <<[feedUrl |-> t.xmlUrl, category |-> <<>>]>> ELSE <<>>
    ELSE LET leaves == LeafFeeds(t)
         IN [i \in 1..Len(leaves) |->
               [feedUrl |-> leaves[i].xmlUrl, category |-> Or(t.text, t.title)]]

\* C19: parseOpml returns exactly one candidate for each feed entry of the
\* document, none dropped and none twice: one with the empty category for a
\* top-level feed entry without children, one with the folder's label for a
\* leaf feed entry anywhere below a top-level folder.
C19_OneCandidatePerFeedEntry ==
  (world.kind = "document" /\ ret.who # Null) =>
    BagOfSeq([i \in 1..Len(ret.what) |->
                [feedUrl |-> ret.what[i].feedUrl, category |-> ret.what[i].category]])
      = BagOfSeq(Flatten([i \in 1..Len(world.doc) |-> EntriesOf(world.doc[i])]))

\* C20: parsing the document exported for a list of blogs yields, for each
\* blog of the list (one without a category included), a candidate of the
\* same title, feed URL and category, and no other candidate.
C20_ExportParseRoundTrip ==
  (world.kind = "exported" /\ ret.who # Null) =>
    BagOfSeq(ret.what) = BagOfSeq(world.list)


-----------------------------------------------------------------------------
(* Item identity *)

\* The feed's own id of an entry, and otherwise its link
NaturalId(e) == IF e.id # "" THEN e.id ELSE e.link

\* C21: the uid of an item depends only on the feed URL and the entry's
\* natural id (its own guid/id, else its link): two entries of the same feed
\* URL and natural id get the same uid, whether each is parsed by the XML or
\* by the JSON path, whatever their titles and dates and whenever they are
\* parsed.
C21_UidOfFeedUrlAndNaturalId ==
  (ret.who # Null /\ Len(ret.what) = 2) =>
    ((world.feedUrl[1] = world.feedUrl[2]
        /\ NaturalId(world.entry[1]) = NaturalId(world.entry[2]))
       => ret.what[1].uid = ret.what[2].uid)

\* The same feed URL and natural id, one entry with its own id parsed as
\* XML and one parsed as JSON, with different titles and different
\* publication times: the uids are equal.
C21_Witness ==
  /\ ret.who # Null /\ Len(ret.what) = 2
  /\ world.feedUrl[1] = world.feedUrl[2]
  /\ NaturalId(world.entry[1]) = NaturalId(world.entry[2])
  /\ world.entry[1].id # "" /\ world.entry[1].link # world.entry[1].id
  /\ world.shape[1] = "xml" /\ world.shape[2] = "json"
  /\ ret.what[1].title # ret.what[2].title
  /\ ret.what[1].published # ret.what[2].published
  /\ ret.what[1].uid = ret.what[2].uid


-----------------------------------------------------------------------------
(* Remote-directory categories *)

\* C22: every blog the FeedLand adapter upserts has a non-empty category:
\* the candidate's own, else the source's category filter, else the account
\* name; whatever source record the adapter is run on.
C22_FeedlandCategoryNonEmpty ==
  (world.kind = "feedland" /\ ret.who # Null /\ ret.what.success) =>
    \A i \in 1..Len(ret.what.upserts) : ret.what.upserts[i].category # <<>>


-----------------------------------------------------------------------------
(* Webhook events *)

\* The step by which handler p takes up a subscribe event for url u
TakesUpSubscribe(p, u) ==
  /\ pc[p] = "idle" /\ loc'[p] # loc[p]
  /\ loc'[p].data = WebhookCandidate(u)

\* C23: a subscribe event for a feed URL that has a blog which is not
\* deleted changes no blog row and creates none, leaves no write of the
\* handler pending, and is answered "skipped"; so a blog without provenance
\* (added by hand or imported from a list) is not overwritten by it.
C23_SubscribeSkipsExisting ==
  [][\A p \in Handlers : \A u \in Urls :
       (TakesUpSubscribe(p, u) /\ \E b \in blogs : b.feedUrl = u /\ b.status # "deleted")
         => (blogs' = blogs /\ pc'[p] = "idle" /\ loc'[p].result = "skipped")]_vars

\* The handler has answered "skipped" to a subscribe event for the URL of a
\* blog without provenance, which is there as it was.
C23_Witness ==
  \E p \in Handlers :
    /\ pc[p] = "idle" /\ loc[p].result = "skipped"
    /\ \E b \in blogs :
         /\ b.feedUrl = loc[p].data.feedUrl
         /\ b.source = Null /\ b.status = "active"


\* C24: once a subscribe event for a feed URL that had no blog is answered
\* "added", there is exactly one blog of that URL; it is flagged to skip
\* item fetching, and no stored item belongs to it.
C24_SubscribeAddsReference ==
  \A p \in Handlers :
    (pc[p] = "idle" /\ loc[p].result = "added" /\ ~HasDeleted(blogs, loc[p].data.feedUrl))
      => /\ Cardinality({b \in blogs : b.feedUrl = loc[p].data.feedUrl}) = 1
         /\ \A b \in blogs :
              b.feedUrl = loc[p].data.feedUrl =>
                /\ b.skipItemFetch
                /\ \A i \in BagToSet(items) : i.blogId # b.id


\* The step by which handler p takes up an unsubscribe event for url u
TakesUpUnsubscribe(p, u) ==
  /\ pc[p] = "idle" /\ loc'[p] # loc[p]
  /\ loc'[p].data = [feedUrl |-> u, action |-> "unsubscribe"]

MirrorBlogsOf(u) ==
  {b \in blogs : b.feedUrl = u /\ b.status # "deleted"
                   /\ b.source \in {"microsub", "microsub-webhook"}}

\* C25: an unsubscribe event for a feed URL that a blog of mirror provenance
\* owns leads to that blog being set inactive, and the write that does so
\* removes no blog row and no item and changes nothing else; an event for a
\* URL without such a blog changes nothing and is answered "skipped".
C25_UnsubscribeDeactivates ==
  [][\A p \in Handlers :
       /\ \A u \in Urls :
            TakesUpUnsubscribe(p, u) =>
              /\ UNCHANGED store
              /\ IF MirrorBlogsOf(u) # {}
                   THEN /\ pc'[p] = "hookDeactivate"
                        /\ \E b \in MirrorBlogsOf(u) : b.id = loc'[p].blog.id
                   ELSE pc'[p] = "idle" /\ loc'[p].result = "skipped"
       /\ (pc[p] = "hookDeactivate" /\ Moves(p)) =>
            /\ items' = items /\ sources' = sources
            /\ loc'[p].result = "deactivated"
            /\ blogs' = {IF b.id = loc[p].blog.id THEN [b EXCEPT !.status = "inactive"] ELSE b :
                           b \in blogs}]_vars


-----------------------------------------------------------------------------
(* Deleting a source *)

\* C26: when deleteSource returns, the source is gone, no blog row has it as
\* its sourceId (deleted rows included), and no item belongs to a blog that
\* had; and its writes leave every other source, blog and item as they were.
C26_DeleteSourceCascades ==
  [][\A p \in Handlers :
       /\ (pc[p] = "delSourceItems" /\ Moves(p)) =>
            /\ blogs' = blogs /\ sources' = sources
            /\ \A i \in BagToSet(items) :
                 i.blogId \notin {b.id : b \in loc[p].blogs}
                   => (i \in BagToSet(items') /\ CopiesIn(i, items') = CopiesIn(i, items))
       /\ (pc[p] = "delSourceBlogs" /\ Moves(p)) =>
            /\ items' = items /\ sources' = sources
            /\ \A b \in blogs : b.sourceId # loc[p].source => b \in blogs'
       /\ (pc[p] = "delSourceRow" /\ Moves(p)) =>
            /\ items' = items /\ blogs' = blogs
            /\ \A s \in SourceIds \ {loc[p].source} : sources'[s] = sources[s]
            /\ ~sources'[loc[p].source].present
            /\ \A b \in blogs' : b.sourceId # loc[p].source
            /\ \A i \in BagToSet(items') :
                 i.blogId \notin {b.id : b \in loc[p].blogs}]_vars


-----------------------------------------------------------------------------
(* Clearing while a run is active *)

\* C27: a clearAndResync that is invoked while a full run is active writes
\* nothing to the store, neither when it is taken up nor in its later steps:
\* it deletes no item and resets no blog.
C27_ClearSkipsWhileRunning ==
  [][\A p \in Callers :
       /\ (pc[p] = "idle" /\ pc'[p] = "resetBlogs" /\ isRunning) => UNCHANGED store
       /\ (pc[p] \in {"resetBlogs", "resync"} /\ Moves(p) /\ loc[p].runningAtCall)
            => UNCHANGED store]_vars


-----------------------------------------------------------------------------
(* Stage order *)

\* The stage of a run a caller is in: 1 the retention sweep, 2 the sources,
\* 3 the blogs, 4 past the statistics write
StageOf(c) ==
  CASE c = "sweep" -> 1
    [] c \in {"sources", "srcLoop", "upsertLoop", "upsertWrite", "adapterStatus",
              "adapterCatch"} -> 2
    [] c \in {"blogLoop", "itemLoop", "syncCatch"} -> 3
    [] c = "return" -> 4
    [] OTHER -> 0

Shrinks(B, C) == \E e \in BagToSet(B) : CopiesIn(e, C) < CopiesIn(e, B)

\* C28: a run never goes back a stage; it deletes items only in its sweep,
\* writes sources and inserts blogs only in its source stage, enumerates the
\* blogs only when no source is left to sync, inserts items only in its blog
\* stage, and writes the statistics only when no blog is left to process.
\* So no item a run inserts is deleted by that run's sweep.
C28_StagesInOrder ==
  [][\A p \in Callers :
       /\ (InBody(p) /\ InBody(p)') => StageOf(pc'[p]) >= StageOf(pc[p])
       /\ (InBody(p) /\ Moves(p)) =>
            /\ Shrinks(items, items') => pc[p] = "sweep"
            /\ (sources' # sources \/ {b.id : b \in blogs'} # {b.id : b \in blogs})
                 => StageOf(pc[p]) = 2
            /\ (StageOf(pc[p]) = 2 /\ StageOf(pc'[p]) = 3) => loc[p].srcQ = {}
            /\ Shrinks(items', items) => StageOf(pc[p]) = 3
            /\ (meta' # meta \/ StageOf(pc'[p]) = 4)
                 => (StageOf(pc[p]) = 3 /\ loc[p].blogQ = {})]_vars

\* A run that synced a source and inserted items is past its statistics write
C28_Witness ==
  \E p \in Callers :
    /\ pc[p] = "return" /\ meta # {}
    /\ loc[p].sourcesSuccess >= 1 /\ loc[p].newItems >= 1
    /\ items # EmptyBag


-----------------------------------------------------------------------------
(* Tombstones *)

\* C29: in every reachable state a blog whose status is "deleted" owns no
\* stored item.
C29_DeletedOwnsNoItem ==
  \A b \in blogs :
    b.status = "deleted" => \A i \in BagToSet(items) : i.blogId # b.id


-----------------------------------------------------------------------------
(* Repeated runs *)

\* Every blog the run fetched had been fetched with success before
AllFetchedBefore(l) == \A b \in l.blogs : ~b.skip => b.lastFetchAt

-----------------------------------------------------------------------------
(* Stored dates and the sweep *)

\* C31: right after a run's retention sweep no stored item has a published
\* instant earlier than the sweep's cutoff: the sweep's comparison orders
\* what upsertItem stored as the instants are ordered.
C31_SweepSeesStoredDates ==
  \A p \in Callers :
    pc[p] = "sources" =>
      \A i \in BagToSet(items) : ~(i.published.t < loc[p].cutoff.t)


-----------------------------------------------------------------------------
(* The list adapter *)

AdapterPcs == {"upsertLoop", "upsertWrite", "adapterStatus", "adapterCatch"}

\* A step of the list adapter called by p: its read of the list, or a later
\* step of its
ListAdapterStep(p) ==
  /\ Moves(p)
  /\ \/ /\ pc[p] = "srcLoop" /\ pc'[p] \in AdapterPcs
        /\ SourceType(loc'[p].source) # "microsub"
     \/ /\ pc[p] \in AdapterPcs
        /\ SourceType(loc[p].source) # "microsub"

\* C32: no step of a list-based source sync fetches a blog feed or changes
\* the item store; besides blog rows it changes only the status fields of
\* its own source.
C32_ListSyncLeavesItems ==
  [][\A p \in Callers :
       ListAdapterStep(p) =>
         /\ items' = items /\ meta' = meta
         /\ pc'[p] \in AdapterPcs \cup {"srcLoop"}
         /\ \A s \in SourceIds :
              sources'[s] # sources[s] => (s = loc[p].source /\ pc'[p] = "srcLoop")]_vars

\* The list adapter has synced its source again, adding no blog, while items
\* of an earlier run are stored.
C32_Witness ==
  \E p \in Callers :
    /\ pc[p] = "srcLoop" /\ loc[p].sourcesSuccess >= 1
    /\ \E s \in SourceIds :
         /\ SourceType(s) # "microsub" /\ sources[s].synced
         /\ s \notin loc[p].srcQ
         /\ \E b \in blogs : b.sourceId = s
    /\ items # EmptyBag


-----------------------------------------------------------------------------
(* The mirror adapter without the foreign collections *)

\* A step of the mirror adapter called by p
MirrorAdapterStep(p) ==
  /\ Moves(p)
  /\ \/ /\ pc[p] = "srcLoop" /\ pc'[p] \in AdapterPcs
        /\ SourceType(loc'[p].source) = "microsub"
     \/ /\ pc[p] \in AdapterPcs
        /\ SourceType(loc[p].source) = "microsub"

\* C33: when the foreign collections are not available, a mirror sync goes
\* to its catch block at once and returns from there as a failure to a
\* caller that goes on; it changes no blog row and no item, and leaves an
\* error in the lastSyncError of its source.
C33_MirrorUnavailableFailsClean ==
  [][\A p \in Callers :
       (MirrorAdapterStep(p) /\ ~world.avail) =>
         /\ blogs' = blogs /\ items' = items
         /\ IF pc[p] = "srcLoop"
              THEN pc'[p] = "adapterCatch" /\ sources' = sources
              ELSE /\ pc[p] = "adapterCatch" /\ pc'[p] = "srcLoop"
                   /\ isRunning'
                   /\ loc'[p].sourcesFailed = loc[p].sourcesFailed + 1
                   /\ loc'[p].sourcesSuccess = loc[p].sourcesSuccess
                   /\ sources'[loc[p].source].lastSyncError # Null]_vars

\* The mirror sync has failed for want of the foreign collections, its
\* source bears the error, and the blogs of the list source are there.
C33_Witness ==
  \E p \in Callers :
    /\ pc[p] = "srcLoop" /\ loc[p].srcQ = {}
    /\ ~world.avail
    /\ loc[p].sourcesFailed = 1 /\ loc[p].sourcesSuccess = 1
    /\ \E s \in SourceIds : SourceType(s) = "microsub" /\ sources[s].lastSyncError # Null
    /\ blogs # {}


-----------------------------------------------------------------------------
(* The outcome of syncBlogItems *)

\* C34: a syncBlogItems whose fetch or parse fails changes no item, leaves
\* its blog with status error and the failure message in lastError, and
\* returns a failure its caller tallies and goes on from; one that succeeds
\* leaves its blog with status active, lastError null and lastFetchAt set,
\* and returns a success.
C34_SyncOutcomeOnBlog ==
  [][\A p \in Callers :
       /\ (pc[p] = "blogLoop" /\ pc'[p] = "syncCatch") => items' = items /\ blogs' = blogs
       /\ (pc[p] = "syncCatch" /\ Moves(p)) =>
            LET id == loc[p].blog.id
            IN /\ items' = items
               /\ \E r \in blogs' : /\ r.id = id /\ r.status = "error"
                                    /\ r.lastError = "error"
                                    /\ r.lastFetchAt = Row(id).lastFetchAt
               /\ pc'[p] = "blogLoop" /\ isRunning'
               /\ loc'[p].blogsFailed = loc[p].blogsFailed + 1
               /\ loc'[p].blogsSuccess = loc[p].blogsSuccess
       /\ (pc[p] = "itemLoop" /\ pc'[p] # "itemLoop") =>
            LET id == loc[p].blog.id
            IN /\ \E r \in blogs' : /\ r.id = id /\ r.status = "active"
                                    /\ r.lastError = Null /\ r.lastFetchAt
               /\ pc'[p] = "blogLoop" /\ isRunning'
               /\ loc'[p].blogsSuccess = loc[p].blogsSuccess + 1
               /\ loc'[p].blogsFailed = loc[p].blogsFailed]_vars

\* A run has synced one blog with success and one with a failure: the store
\* holds the items of the first, and the rows bear the two outcomes.
C34_Witness ==
  \E p \in Callers :
    /\ pc[p] = "blogLoop"
    /\ loc[p].blogsSuccess = 1 /\ loc[p].blogsFailed = 1
    /\ items # EmptyBag
    /\ \E r \in blogs : r.status = "error" /\ r.lastError = "error"
    /\ \E r \in blogs : r.status = "active" /\ r.lastError = Null /\ r.lastFetchAt


-----------------------------------------------------------------------------
(* Disabled sources *)

\* The source stage of a run, past its enumeration of the sources
SourceStagePcs == {"srcLoop"} \cup AdapterPcs

\* The blog rows source s owns
OwnedBy(bs, s) == {b \in bs : b.sourceId = s}

-----------------------------------------------------------------------------
(* The tallies of a run *)

\* C36, as stated: in the statistics a completed run persists and returns,
\* the sources counted as success and as failed add up to the total of the
\* sources, and the blogs counted as success and as failed add up to the
\* total of the blogs.
C36_TalliesAddUp ==
  \A p \in Callers :
    pc[p] = "return" =>
      LET st == RunStats(loc[p])
      IN /\ st \in meta
         /\ st.sources.success + st.sources.failed = st.sources.total
         /\ st.blogs.success + st.blogs.failed = st.blogs.total

\* C36, amended: the sources counted as success and as failed add up to the
\* total of the sources; the blogs counted as success and as failed, with
\* the enumerated blogs the run skipped as mirror-sourced or flagged
\* skipItemFetch, add up to the total of the blogs, which counts every
\* enumerated blog.
C36_TalliesAddUpWithSkipped ==
  \A p \in Callers :
    pc[p] = "return" =>
      LET st == RunStats(loc[p])
          skipped == {b \in loc[p].blogs : b.skip}
      IN /\ st \in meta
         /\ st.sources.success + st.sources.failed = st.sources.total
         /\ st.blogs.total = Cardinality(loc[p].blogs)
         /\ st.blogs.success + st.blogs.failed + Cardinality(skipped) = st.blogs.total

\* A run has written its statistics after it went through two sources,
\* skipped a blog, fetched a second with success and failed on a third.
C36_Witness ==
  \E p \in Callers :
    /\ pc[p] = "return"
    /\ RunStats(loc[p]) \in meta
    /\ loc[p].sourcesSuccess = 2
    /\ \E b \in loc[p].blogs : b.skip
    /\ loc[p].blogsSuccess = 1 /\ loc[p].blogsFailed = 1


-----------------------------------------------------------------------------
(* The timers after stopSync *)

\* C37: once stopSync has returned, no callback of a timer that a startSync
\* call set, neither the startup timeout nor an interval, starts a full run.
C37_NoTimerRunAfterStop ==
  [][world.stopped =>
       \A p \in {"startup", "interval"} :
         ~(pc[p] \in OutsidePcs /\ pc'[p] = "sweep")]_vars


-----------------------------------------------------------------------------
(* The in-progress flag is given back *)

\* C38: every run that has started comes to its return, with the flag
\* cleared, whether it ends in success or in its catch block; the flag is
\* set only while a run is in its body, so never after the run returned;
\* and a call of runFullSync made while no run is in its body is accepted.
C38_FlagGivenBack ==
  /\ \A p \in Callers : InBody(p) ~> (~InBody(p) /\ ~isRunning)
  /\ [](isRunning <=> \E p \in Callers : InBody(p))
  /\ [][\A p \in Callers :
          (/\ pc[p] \in EntryPcs
           /\ \A q \in Callers : ~InBody(q)
           /\ (pc'[p] # pc[p] \/ ret' # ret)) =>
            (pc'[p] = "sweep" /\ isRunning')]_vars

\* A run has ended in its catch block, and the call that came next was
\* accepted and is in its body.
C38_Witness ==
  /\ ret.what = "failure" /\ ret.who = "interval"
  /\ InBody("manual") /\ isRunning
  /\ pc["interval"] = "idle"


-----------------------------------------------------------------------------
(* References between the collections *)

\* C39: in every state, every stored item belongs to a blog row that is in
\* the store, and every blog row with a sourceId belongs to a source that is
\* in the store, whatever the operator deletes while a run is in progress.
C39_NoDanglingReference ==
  /\ \A i \in BagToSet(items) : \E b \in blogs : b.id = i.blogId
  /\ \A b \in blogs : b.sourceId # Null => sources[b.sourceId].present


-----------------------------------------------------------------------------
(* Orphaned mirror blogs *)

\* A mirror blog that orphan detection has soft-deleted (where no operator
\* deletes a blog)
Orphaned(b) == b.source = "microsub" /\ b.status = "deleted"

\* C40: a mirror blog that orphan detection has soft-deleted is never
\* changed again by a run; while it is there, no step of a run changes or
\* adds a blog row with its feed URL; and a mirror sync that meets the feed
\* again in the foreign feed set passes over it, counting it neither as
\* added nor as updated.
C40_OrphanStaysDeleted ==
  [][\A p \in Callers :
       Moves(p) =>
         \A b \in blogs :
           Orphaned(b) =>
             /\ b \in blogs'
             /\ {c \in blogs' : c.feedUrl = b.feedUrl} = {c \in blogs : c.feedUrl = b.feedUrl}
             /\ (/\ pc[p] = "upsertLoop" /\ loc[p].cands # {}
                 /\ MinOf(loc[p].cands) = b.feedUrl) =>
                  /\ pc'[p] = "upsertLoop"
                  /\ loc'[p].added = loc[p].added
                  /\ loc'[p].updated = loc[p].updated]_vars

\* The foreign feed is back in the foreign feed set, and a mirror sync has
\* just passed over it: its blog is still deleted and hidden, and no other
\* mirror blog has its URL.
C40_Witness ==
  \E p \in Callers, b \in blogs :
    /\ pc[p] = "upsertLoop" /\ SourceType(loc[p].source) = "microsub"
    /\ loc[p].result = "skippedDeleted"
    /\ loc[p].added = 0 /\ loc[p].updated = 0
    /\ Orphaned(b) /\ b.hidden
    /\ b.feedUrl \in world.subs \ loc[p].cands
    /\ \A c \in blogs : (c.feedUrl = b.feedUrl /\ c.source = "microsub") => c = b

====
